---- MODULE Spec2Model ----
(***************************************************************************)
(* A model of the step / plan execution engine of sunbeam (snap-openstack) *)
(* and of the steps of commands/juju.py and commands/openstack.py that the *)
(* local provider commands (bootstrap, add, join) put into plans.          *)
(*                                                                         *)
(* A step instance is a record, a collaborator world is a record, and each *)
(* method of a step class is an operator from (instance, world, choice) to *)
(* (outcome, instance', world').  The choice stands for what the external  *)
(* collaborators do during the call: which command exits non-zero, what a  *)
(* step whose code lies outside the modelled files returns.                *)
(***************************************************************************)
EXTENDS Integers, Sequences, FiniteSets, TLC

VARIABLES
    plan,      \* the list of step instances handed to run_plan
    i,         \* index of the step run_plan is working on
    phase,     \* "is_skip" | "prompt" | "run" | "returned" | "raised"
    results,   \* the outcome map run_plan builds: a sequence of [key, out]
    calls,     \* history: the methods invoked so far, <<index, method>>
    skips,     \* history: the kind is_skip returned for steps 1..Len(skips)
    outs,      \* history: the outcome recorded for steps 1..Len(outs)
    w,         \* the collaborators: juju, cluster database, local files
    cmd,       \* the command being executed
    stage,     \* which plan of the command is running
    runs,      \* how many times a command / lifecycle has been started
    sk,        \* history: the latest is_skip call(s) and what they met
    ses        \* one call of a step method followed command by command

vars ==
    <<plan, i, phase, results, calls, skips, outs, w, cmd, stage, runs, sk, ses>>

-----------------------------------------------------------------------------
(* Bounds of the model *)

\* largest number of distinct control/compute node names in the cluster db
MaxNodes == 10
\* how many times a command (or a step lifecycle) is started in one behaviour
MaxRuns == 2

-----------------------------------------------------------------------------
(* Outcomes: jobs.common.Result / ResultType as the steps use them *)

COMPLETED == "COMPLETED"
FAILED == "FAILED"
SKIPPED == "SKIPPED"
\* not a ResultType: an exception left the method instead of a Result
RAISED == "RAISED"

NoneV == "None"

Result(kind, msg) == [kind |-> kind, msg |-> msg]

\* what a method call yields: its Result, the instance and the world after it
Ret(kind, msg, s, ww) == [out |-> Result(kind, msg), inst |-> s, w |-> ww]

\* str(e) of the exceptions the steps convert or let through
CalledProcessError == "CalledProcessError"
PexpectTimeout == "pexpect.TIMEOUT"
AttributeError == "AttributeError"

FQDN == "fqdn"
Token == "tok1"
Passwords == {"pw1", "pw2"}

-----------------------------------------------------------------------------
(* Step instances *)

\* the attributes the constructors set; a class reads only its own
Step(cls) ==
    [cls |-> cls, ctype |-> "manual", refresh |-> FALSE, topology |-> "",
     database |-> "", force |-> FALSE, token |-> NoneV, acct |-> NoneV,
     mid |-> "-1"]

\* what the external world does during one call
Choice(f, k, pw) == [f |-> f, k |-> k, pw |-> pw]

-----------------------------------------------------------------------------
(* The collaborators *)

NoTopology == [set |-> FALSE, topology |-> "", database |-> ""]

\* a machine on which nothing has been bootstrapped yet
Fresh ==
    [cloud |-> FALSE,        \* the cloud is among `juju clouds`
     cred |-> FALSE,         \* the credential is among `juju credentials`
     controller |-> FALSE,   \* `juju show-controller` finds the controller
     user |-> FALSE,         \* the user is among `juju list-users`
     su |-> FALSE,           \* the user holds superuser
     adm |-> FALSE,          \* the user holds admin on the controller model
     regtoken |-> NoneV,     \* the token `juju add-user` printed for the user
     whoami |-> "none",      \* `juju show-user`: "none" = no controller registered
     account |-> NoneV,      \* password of the account file at data_location
     backup |-> FALSE,       \* accounts.yaml.bk exists
     dbtoken |-> NoneV,      \* token of the user in the cluster database
     machine |-> FALSE,      \* the node's machine is in the controller model
     nodeInDb |-> TRUE,      \* the node is in the cluster database
     topo |-> NoTopology,    \* the persisted Topology config
     ncombined |-> 1,        \* distinct control/compute node names
     ramLow |-> TRUE,        \* host RAM below RAM_32_GB_IN_KB
     answers |-> {},         \* config keys written by prompt()
     kubeconfig |-> FALSE,   \* the Microk8sConfig item is in the cluster db
     k8scloud |-> FALSE,     \* the microk8s cloud is in the controller
     ha |-> FALSE,           \* juju enable-ha has been issued
     tf |-> [applied |-> FALSE, many_mysql |-> FALSE]]
                             \* 'many-mysql' as last handed to terraform

-----------------------------------------------------------------------------
(* commands/juju.py.  In every method the choice c.f names the command of  *)
(* the method that exits non-zero (0: none does), numbered in the order    *)
(* the method issues them.                                                 *)

\* variant: the failure of `juju clouds` is logged and the step goes on
is_skip_IgnoresFailure(s, ww, c) ==
    IF ww.cloud THEN Ret(SKIPPED, NoneV, s, ww)
    ELSE Ret(COMPLETED, NoneV, s, ww)

\* AddCloudJujuStep.is_skip: clouds --client
AddCloudJujuStep_is_skip(s, ww, c) ==
    IF c.f = 1 THEN Ret(FAILED, CalledProcessError, s, ww)
    ELSE IF ww.cloud THEN Ret(SKIPPED, NoneV, s, ww)
    ELSE Ret(COMPLETED, NoneV, s, ww)

\* AddCloudJujuStep.run: add_cloud refuses types other than manual / maas
AddCloudJujuStep_run(s, ww, c) ==
    IF s.ctype \notin {"manual", "maas"}
    THEN Ret(FAILED, "Unable to create cloud", s, ww)
    ELSE IF c.f = 1 THEN Ret(FAILED, CalledProcessError, s, ww)
    ELSE Ret(COMPLETED, NoneV, s, [ww EXCEPT !.cloud = TRUE])

\* AddCredentialsJujuStep.is_skip: credentials --client <cloud>
AddCredentialsJujuStep_is_skip(s, ww, c) ==
    IF c.f = 1 THEN Ret(FAILED, CalledProcessError, s, ww)
    ELSE IF ~ww.cred THEN Ret(COMPLETED, NoneV, s, ww)
    ELSE Ret(SKIPPED, NoneV, s, ww)

AddCredentialsJujuStep_run(s, ww, c) ==
    IF c.f = 1 THEN Ret(FAILED, CalledProcessError, s, ww)
    ELSE Ret(COMPLETED, NoneV, s, [ww EXCEPT !.cred = TRUE])

\* get_controller: any non-zero exit of show-controller is ControllerNotFound
ControllerNotFound(ww, c) == c.f = 2 \/ ~ww.controller

\* BootstrapJujuStep.is_skip: 1 = clouds, 2 = show-controller
BootstrapJujuStep_is_skip(s, ww, c) ==
    IF c.f = 1 THEN Ret(FAILED, CalledProcessError, s, ww)
    ELSE IF ~ww.cloud THEN Ret(FAILED, "Cloud not found", s, ww)
    ELSE IF ~ControllerNotFound(ww, c) THEN Ret(SKIPPED, NoneV, s, ww)
    ELSE Ret(COMPLETED, NoneV, s, ww)

\* BootstrapJujuStep.prompt: write_answers(client, BOOTSTRAP_CONFIG_KEY, ...)
BootstrapJujuStep_prompt(s, ww) ==
    [inst |-> s, w |-> [ww EXCEPT !.answers = @ \cup {"BootstrapAnswers"}]]

\* BootstrapJujuStep.run: juju bootstrap; the client is then logged in as admin
BootstrapJujuStep_run(s, ww, c) ==
    IF c.f = 1 \/ ww.controller THEN Ret(FAILED, CalledProcessError, s, ww)
    ELSE Ret(COMPLETED, NoneV, s,
             [ww EXCEPT !.controller = TRUE, !.whoami = "admin"])

ScaleJujuStep_is_skip(s, ww, c) == Ret(COMPLETED, NoneV, s, ww)

\* ScaleJujuStep.run: 1 = enable-ha, 2 = wait-for; no except clause around either
ScaleJujuStep_run(s, ww, c) ==
    IF c.f = 1 THEN Ret(RAISED, CalledProcessError, s, ww)
    ELSE IF c.f = 2
    THEN Ret(RAISED, CalledProcessError, s, [ww EXCEPT !.ha = TRUE])
    ELSE Ret(COMPLETED, NoneV, s, [ww EXCEPT !.ha = TRUE])

\* CreateJujuUserStep.is_skip: list-users
CreateJujuUserStep_is_skip(s, ww, c) ==
    IF c.f = 1 THEN Ret(FAILED, CalledProcessError, s, ww)
    ELSE IF ww.user THEN Ret(SKIPPED, NoneV, s, ww)
    ELSE Ret(COMPLETED, NoneV, s, ww)

\* CreateJujuUserStep.run: 1 = add-user, 2 = grant superuser, 3 = grant admin
\* on the controller model; 4 = add-user prints no `juju register` line,
\* 5 = the line carries an empty token.  add-user fails for an existing user.
CreateJujuUserStep_run(s, ww, c) ==
    LET added == [ww EXCEPT !.user = TRUE, !.regtoken = Token]
        super == [added EXCEPT !.su = TRUE]
        admin == [super EXCEPT !.adm = TRUE] IN
    IF c.f = 1 \/ ww.user THEN Ret(FAILED, CalledProcessError, s, ww)
    ELSE IF c.f = 4
    THEN Ret(RAISED, AttributeError, s, [ww EXCEPT !.user = TRUE])
    ELSE IF c.f = 5
    THEN Ret(FAILED, "Not able to parse registration token", s,
             [ww EXCEPT !.user = TRUE])
    ELSE IF c.f = 2 THEN Ret(FAILED, CalledProcessError, s, added)
    ELSE IF c.f = 3 THEN Ret(FAILED, CalledProcessError, s, super)
    ELSE Ret(COMPLETED, Token, s, admin)

\* JujuGrantModelAccessStep.run: 1 = ModelNotFoundException, 2 = grant exits
\* non-zero with 'user already has "admin" access or greater', 3 = grant
\* exits non-zero with another stderr
JujuGrantModelAccessStep_run(s, ww, c) ==
    IF c.f = 1 THEN Ret(FAILED, "ModelNotFoundException", s, ww)
    ELSE IF c.f = 2 THEN Ret(COMPLETED, NoneV, s, ww)
    ELSE IF c.f = 3 THEN Ret(FAILED, CalledProcessError, s, ww)
    ELSE Ret(COMPLETED, NoneV, s, ww)

\* RemoveJujuUserStep.is_skip: list-users
RemoveJujuUserStep_is_skip(s, ww, c) ==
    IF c.f = 1 THEN Ret(FAILED, CalledProcessError, s, ww)
    ELSE IF ~ww.user THEN Ret(SKIPPED, NoneV, s, ww)
    ELSE Ret(COMPLETED, NoneV, s, ww)

RemoveJujuUserStep_run(s, ww, c) ==
    IF c.f = 1 \/ ~ww.user THEN Ret(FAILED, CalledProcessError, s, ww)
    ELSE Ret(COMPLETED, NoneV, s,
             [ww EXCEPT !.user = FALSE, !.su = FALSE, !.adm = FALSE])

\* `juju show-user` exits non-zero: the command fails, or no controller is
\* registered with the client
ShowUserFails(ww, c) == c.f = 1 \/ ww.whoami = "none"

\* the stderr of that failure contains "No controllers registered"
NoControllersRegistered(ww, c) == c.f # 1 /\ ww.whoami = "none"

\* RegisterJujuUserStep.is_skip: JujuAccount.load, show-user, get_juju_user
RegisterJujuUserStep_is_skip(s, ww, c) ==
    LET s1 == [s EXCEPT !.acct = ww.account] IN
    IF ww.account = NoneV
    THEN Ret(FAILED, "Account was not registered locally", s, ww)
    ELSE IF ShowUserFails(ww, c) /\ ~NoControllersRegistered(ww, c)
    THEN Ret(FAILED, CalledProcessError, s1, ww)
    ELSE IF ~ShowUserFails(ww, c) /\ ww.whoami = FQDN
    THEN Ret(SKIPPED, NoneV, s1, ww)
    ELSE Ret(COMPLETED, NoneV, [s1 EXCEPT !.token = ww.dbtoken], ww)

\* RegisterJujuUserStep.run: the register session; 1 = the output before
\* end-of-stream contains ERROR, 2 = pexpect.TIMEOUT
RegisterJujuUserStep_run(s, ww, c) ==
    IF s.token = NoneV
    THEN Ret(FAILED, "No registration token found in Cluster database", s, ww)
    ELSE IF c.f = 1 THEN Ret(FAILED, "ERROR", s, ww)
    ELSE IF c.f = 2 THEN Ret(FAILED, PexpectTimeout, s, ww)
    ELSE Ret(COMPLETED, NoneV, s, [ww EXCEPT !.whoami = FQDN])

\* AddJujuMachineStep.is_skip: machines -m controller
AddJujuMachineStep_is_skip(s, ww, c) ==
    IF c.f = 1 THEN Ret(FAILED, CalledProcessError, s, ww)
    ELSE IF ww.machine THEN Ret(SKIPPED, "0", s, ww)
    ELSE Ret(COMPLETED, NoneV, s, ww)

\* AddJujuMachineStep.run: the add-machine session (1 = ERROR in its output,
\* 2 = pexpect.TIMEOUT), then machines -m controller (3 = it exits non-zero,
\* outside any except clause that names CalledProcessError; 4 = the machine is
\* not listed yet)
AddJujuMachineStep_run(s, ww, c) ==
    LET added == [ww EXCEPT !.machine = TRUE] IN
    IF c.f = 1 THEN Ret(FAILED, "ERROR", s, ww)
    ELSE IF c.f = 2 THEN Ret(FAILED, "TIMED OUT to add machine", s, ww)
    ELSE IF c.f = 3 THEN Ret(RAISED, CalledProcessError, s, added)
    ELSE IF c.f = 4 THEN Ret(COMPLETED, "-1", s, ww)
    ELSE Ret(COMPLETED, "0", s, added)

\* RemoveJujuMachineStep.is_skip: get_node_info, then machines -m controller
RemoveJujuMachineStep_is_skip(s, ww, c) ==
    LET s1 == [s EXCEPT !.mid = "0"] IN
    IF ~ww.nodeInDb THEN Ret(FAILED, "NodeNotExistInClusterException", s, ww)
    ELSE IF c.f = 1 THEN Ret(FAILED, CalledProcessError, s1, ww)
    ELSE IF ~ww.machine THEN Ret(SKIPPED, NoneV, s1, ww)
    ELSE Ret(COMPLETED, NoneV, s1, ww)

RemoveJujuMachineStep_run(s, ww, c) ==
    IF s.mid = "-1"
    THEN Ret(FAILED, "Not able to retrieve machine id from Cluster database",
             s, ww)
    ELSE IF c.f = 1 THEN Ret(FAILED, CalledProcessError, s, ww)
    ELSE Ret(COMPLETED, NoneV, s, [ww EXCEPT !.machine = FALSE])

\* BackupBootstrapUserStep.is_skip: show-user
BackupBootstrapUserStep_is_skip(s, ww, c) ==
    IF ShowUserFails(ww, c) THEN Ret(FAILED, CalledProcessError, s, ww)
    ELSE IF ww.whoami = "admin" THEN Ret(COMPLETED, NoneV, s, ww)
    ELSE Ret(SKIPPED, NoneV, s, ww)

BackupBootstrapUserStep_run(s, ww, c) ==
    Ret(COMPLETED, NoneV, s, [ww EXCEPT !.backup = TRUE])

\* variant: the account file is not looked for
is_skip_NeverSkips(s, ww, c) == Ret(COMPLETED, NoneV, s, ww)

\* SaveJujuUserLocallyStep.is_skip: JujuAccount.load
SaveJujuUserLocallyStep_is_skip(s, ww, c) ==
    IF ww.account # NoneV THEN Ret(SKIPPED, NoneV, s, ww)
    ELSE Ret(COMPLETED, NoneV, s, ww)

\* variant: the account is built but never written to data_location
run_WithoutWrite(s, ww, c) == Ret(COMPLETED, NoneV, s, ww)

\* SaveJujuUserLocallyStep.run: pwgen, JujuAccount.write; c.pw is the password
\* pwgen generates
SaveJujuUserLocallyStep_run(s, ww, c) ==
    Ret(COMPLETED, NoneV, s, [ww EXCEPT !.account = c.pw])

\* JujuLoginStep.is_skip: the show-user session; 0 = the password prompt,
\* 1 = pexpect.TIMEOUT, 2 = end-of-stream, 3 = the "{}" pattern
JujuLoginStep_is_skip(s, ww, c) ==
    IF s.acct = NoneV THEN Ret(SKIPPED, NoneV, s, ww)
    ELSE IF c.f = 1 THEN Ret(FAILED, PexpectTimeout, s, ww)
    ELSE IF c.f = 2 THEN Ret(SKIPPED, NoneV, s, ww)
    ELSE Ret(COMPLETED, NoneV, s, ww)

\* JujuLoginStep.run: the login session; 1 = pexpect.TIMEOUT, 2 = exit status
\* other than 0
JujuLoginStep_run(s, ww, c) ==
    IF s.acct = NoneV
    THEN Ret(FAILED,
             "Juju account was supposed to be checked for in is_skip method.",
             s, ww)
    ELSE IF c.f = 1 THEN Ret(FAILED, PexpectTimeout, s, ww)
    ELSE IF c.f = 2 THEN Ret(FAILED, "Failed to login to Juju Controller", s, ww)
    ELSE Ret(COMPLETED, NoneV, s, [ww EXCEPT !.whoami = FQDN])

-----------------------------------------------------------------------------
(* commands/microk8s.py *)

\* variant: has_prompts ignores the refresh flag
has_prompts_True(s) == TRUE

\* DeployMicrok8sApplicationStep.has_prompts: no questions on a refresh
DeployMicrok8sApplicationStep_has_prompts(s) == ~s.refresh

\* DeployMicrok8sApplicationStep.prompt: write_answers(client, _ADDONS_CONFIG)
DeployMicrok8sApplicationStep_prompt(s, ww) ==
    [inst |-> s,
     w |-> [ww EXCEPT !.answers = @ \cup {"TerraformVarsMicrok8sAddons"}]]

\* AddMicrok8sCloudStep.is_skip: jhelper.get_clouds()
AddMicrok8sCloudStep_is_skip(s, ww, c) ==
    IF ww.k8scloud THEN Ret(SKIPPED, NoneV, s, ww)
    ELSE Ret(COMPLETED, NoneV, s, ww)

\* AddMicrok8sCloudStep.run: read_config, add_k8s_cloud; 1 = the kubeconfig
\* is not supported
AddMicrok8sCloudStep_run(s, ww, c) ==
    IF ~ww.kubeconfig THEN Ret(FAILED, "ConfigItemNotFoundException", s, ww)
    ELSE IF c.f = 1 THEN Ret(FAILED, "UnsupportedKubeconfigException", s, ww)
    ELSE Ret(COMPLETED, NoneV, s, [ww EXCEPT !.k8scloud = TRUE])

\* StoreMicrok8sConfigStep.is_skip: read_config(client, MICROK8S_KUBECONFIG_KEY)
StoreMicrok8sConfigStep_is_skip(s, ww, c) ==
    IF ~ww.kubeconfig THEN Ret(COMPLETED, NoneV, s, ww)
    ELSE Ret(SKIPPED, NoneV, s, ww)

\* StoreMicrok8sConfigStep.run: 1 = the leader / action lookup fails, 2 = the
\* action result has no content
StoreMicrok8sConfigStep_run(s, ww, c) ==
    IF c.f = 1 THEN Ret(FAILED, "ActionFailedException", s, ww)
    ELSE IF c.f = 2
    THEN Ret(FAILED, "ERROR: Failed to retrieve kubeconfig", s, ww)
    ELSE Ret(COMPLETED, NoneV, s, [ww EXCEPT !.kubeconfig = TRUE])

-----------------------------------------------------------------------------
(* commands/openstack.py *)

\* len(combined) < 10 separates multi from large
LargeThreshold == 10

determine_target_topology(ww) ==
    IF ww.ncombined = 1 /\ ww.ramLow THEN "single"
    ELSE IF ww.ncombined < LargeThreshold THEN "multi"
    ELSE "large"

\* self.topology after is_skip
ResolvedTopology(s, ww) ==
    IF s.topology = "auto" THEN determine_target_topology(ww) ELSE s.topology

\* variant: a determined 'large' is kept as the database
ResolvedDatabase_KeepsLarge(s, ww) ==
    IF s.database = "auto"
    THEN IF ww.topo.set THEN ww.topo.database
         ELSE determine_target_topology(ww)
    ELSE s.database

\* self.database after is_skip: 'auto' takes the persisted value, else the
\* determined topology; 'large' is stored as 'multi'
ResolvedDatabase(s, ww) ==
    LET d == IF s.database = "auto"
             THEN IF ww.topo.set THEN ww.topo.database
                  ELSE determine_target_topology(ww)
             ELSE s.database IN
    IF d = "large" THEN "multi" ELSE d

\* variant: the comparison is dropped
DatabaseChanged_Never(ww, database) == FALSE

\* variant: the persisted topology is compared instead of the database
DatabaseChanged_ComparesTopology(ww, database) ==
    ww.topo.set /\ ww.topo.topology # database

\* (database := previous_config.get("database")) and database != self.database
DatabaseChanged(ww, database) == ww.topo.set /\ ww.topo.database # database

DatabaseChangeMsg ==
    "Database topology cannot be changed, please destroy and re-bootstrap"

NotCompatibleMsg ==
    "Cannot deploy control plane to large with single database, use -f/--force to override"

\* variant: the compatibility check reads self.topology as it was passed in
is_skip_ChecksBeforeResolving(s, ww, c) ==
    LET topology == ResolvedTopology(s, ww)
        database == ResolvedDatabase(s, ww)
        s1 == [s EXCEPT !.topology = topology, !.database = database]
        is_not_compatible == database = "single" /\ s.topology = "large" IN
    IF DatabaseChanged(ww, database) THEN Ret(FAILED, DatabaseChangeMsg, s1, ww)
    ELSE IF ~s.force /\ is_not_compatible
    THEN Ret(FAILED, NotCompatibleMsg, s1, ww)
    ELSE Ret(COMPLETED, NoneV, s1, ww)

DeployControlPlaneStep_is_skip(s, ww, c) ==
    LET topology == ResolvedTopology(s, ww)
        database == ResolvedDatabase(s, ww)
        s1 == [s EXCEPT !.topology = topology, !.database = database]
        is_not_compatible == database = "single" /\ topology = "large" IN
    IF DatabaseChanged(ww, database) THEN Ret(FAILED, DatabaseChangeMsg, s1, ww)
    ELSE IF ~s.force /\ is_not_compatible
    THEN Ret(FAILED, NotCompatibleMsg, s1, ww)
    ELSE Ret(COMPLETED, NoneV, s1, ww)

\* update_config(client, TOPOLOGY_KEY, {topology, database})
WriteTopology(s, ww) ==
    [ww EXCEPT !.topo = [set |-> TRUE, topology |-> s.topology,
                         database |-> s.database]]

\* update_tfvars_and_apply_tf(..., override_tfvars=extra_tfvars) with
\* "many-mysql": self.database == "multi"
ApplyOpenstackPlan(s, ww) ==
    [ww EXCEPT !.tf = [applied |-> TRUE, many_mysql |-> s.database = "multi"]]

\* variant: the Topology config is written once terraform and the wait are over
run_WritesOnSuccess(s, ww, c) ==
    IF c.f = 1 THEN Ret(FAILED, "TerraformException", s, ww)
    ELSE IF c.f = 2 THEN Ret(FAILED, "JujuWaitException", s, ww)
    ELSE IF c.f = 3 THEN Ret(FAILED, "TimeoutException", s, ww)
    ELSE Ret(COMPLETED, NoneV, s, ApplyOpenstackPlan(s, WriteTopology(s, ww)))

\* DeployControlPlaneStep.run: the config is written first, then terraform is
\* handed the variables; 1 = terraform raises TerraformException, 2 = the wait
\* raises JujuWaitException, 3 = the wait raises TimeoutException
DeployControlPlaneStep_run(s, ww, c) ==
    LET w1 == ApplyOpenstackPlan(s, WriteTopology(s, ww)) IN
    IF c.f = 1 THEN Ret(FAILED, "TerraformException", s, w1)
    ELSE IF c.f = 2 THEN Ret(FAILED, "JujuWaitException", s, w1)
    ELSE IF c.f = 3 THEN Ret(FAILED, "TimeoutException", s, w1)
    ELSE Ret(COMPLETED, NoneV, s, w1)

-----------------------------------------------------------------------------
(* jobs/common.py BaseStep, and the steps of the plans whose classes live   *)
(* in other files (clusterd, terraform, k8s, microceph, hypervisor, ...):   *)
(* such a step returns whatever kind the choice names.                      *)

\* BaseStep.is_skip: COMPLETED unless overridden
BaseStep_is_skip(s, ww, c) == Ret(COMPLETED, NoneV, s, ww)

\* BaseStep.has_prompts: False unless overridden
BaseStep_has_prompts(s) == FALSE

BootstrapJujuStep_has_prompts(s) == TRUE

\* WriteJujuStatusStep.is_skip and WriteCharmLogStep.is_skip: get_model;
\* 1 = ModelNotFoundException
WriteJujuStatusStep_is_skip(s, ww, c) ==
    IF c.f = 1 THEN Ret(SKIPPED, NoneV, s, ww)
    ELSE Ret(COMPLETED, NoneV, s, ww)

WriteCharmLogStep_is_skip(s, ww, c) ==
    IF c.f = 1 THEN Ret(SKIPPED, NoneV, s, ww)
    ELSE Ret(COMPLETED, NoneV, s, ww)

\* WriteJujuStatusStep.run: 1 = an exception of the status query or of the
\* file writing, all caught
WriteJujuStatusStep_run(s, ww, c) ==
    IF c.f = 1 THEN Ret(FAILED, "Exception", s, ww)
    ELSE Ret(COMPLETED, "Inspecting Model Status", s, ww)

\* WriteCharmLogStep.run: 1 = `juju debug-log` exits non-zero
WriteCharmLogStep_run(s, ww, c) ==
    IF c.f = 1 THEN Ret(FAILED, CalledProcessError, s, ww)
    ELSE Ret(COMPLETED, "Inspecting Charm Log", s, ww)

ModelledClasses ==
    {"WriteJujuStatusStep", "WriteCharmLogStep",
     "AddCloudJujuStep", "AddCredentialsJujuStep", "BootstrapJujuStep",
     "ScaleJujuStep", "CreateJujuUserStep", "JujuGrantModelAccessStep",
     "RemoveJujuUserStep", "RegisterJujuUserStep", "AddJujuMachineStep",
     "RemoveJujuMachineStep", "BackupBootstrapUserStep",
     "SaveJujuUserLocallyStep", "JujuLoginStep", "AddMicrok8sCloudStep",
     "StoreMicrok8sConfigStep", "DeployControlPlaneStep"}

External_is_skip(s, ww, c) == Ret(c.k, NoneV, s, ww)

External_run(s, ww, c) == Ret(c.k, NoneV, s, ww)

\* ClusterAddJujuUserStep.run stores the token it was constructed with in
\* the cluster database, where RegisterJujuUserStep.is_skip reads it
ClusterAddJujuUserStep_run(s, ww, c) ==
    IF c.k = COMPLETED
    THEN Ret(COMPLETED, NoneV, s, [ww EXCEPT !.dbtoken = s.token])
    ELSE Ret(c.k, NoneV, s, ww)

-----------------------------------------------------------------------------
(* Dispatch on the class of the instance *)

IsSkip(s, ww, c) ==
    CASE s.cls = "AddCloudJujuStep" -> AddCloudJujuStep_is_skip(s, ww, c)
      [] s.cls = "AddCredentialsJujuStep" ->
             AddCredentialsJujuStep_is_skip(s, ww, c)
      [] s.cls = "BootstrapJujuStep" -> BootstrapJujuStep_is_skip(s, ww, c)
      [] s.cls = "ScaleJujuStep" -> ScaleJujuStep_is_skip(s, ww, c)
      [] s.cls = "CreateJujuUserStep" -> CreateJujuUserStep_is_skip(s, ww, c)
      [] s.cls = "JujuGrantModelAccessStep" -> BaseStep_is_skip(s, ww, c)
      [] s.cls = "RemoveJujuUserStep" -> RemoveJujuUserStep_is_skip(s, ww, c)
      [] s.cls = "RegisterJujuUserStep" ->
             RegisterJujuUserStep_is_skip(s, ww, c)
      [] s.cls = "AddJujuMachineStep" -> AddJujuMachineStep_is_skip(s, ww, c)
      [] s.cls = "RemoveJujuMachineStep" ->
             RemoveJujuMachineStep_is_skip(s, ww, c)
      [] s.cls = "BackupBootstrapUserStep" ->
             BackupBootstrapUserStep_is_skip(s, ww, c)
      [] s.cls = "SaveJujuUserLocallyStep" ->
             SaveJujuUserLocallyStep_is_skip(s, ww, c)
      [] s.cls = "JujuLoginStep" -> JujuLoginStep_is_skip(s, ww, c)
      [] s.cls = "AddMicrok8sCloudStep" ->
             AddMicrok8sCloudStep_is_skip(s, ww, c)
      [] s.cls = "StoreMicrok8sConfigStep" ->
             StoreMicrok8sConfigStep_is_skip(s, ww, c)
      [] s.cls = "DeployControlPlaneStep" ->
             DeployControlPlaneStep_is_skip(s, ww, c)
      [] s.cls = "WriteJujuStatusStep" ->
             WriteJujuStatusStep_is_skip(s, ww, c)
      [] s.cls = "WriteCharmLogStep" -> WriteCharmLogStep_is_skip(s, ww, c)
      [] OTHER -> External_is_skip(s, ww, c)

Run(s, ww, c) ==
    CASE s.cls = "AddCloudJujuStep" -> AddCloudJujuStep_run(s, ww, c)
      [] s.cls = "AddCredentialsJujuStep" ->
             AddCredentialsJujuStep_run(s, ww, c)
      [] s.cls = "BootstrapJujuStep" -> BootstrapJujuStep_run(s, ww, c)
      [] s.cls = "ScaleJujuStep" -> ScaleJujuStep_run(s, ww, c)
      [] s.cls = "CreateJujuUserStep" -> CreateJujuUserStep_run(s, ww, c)
      [] s.cls = "JujuGrantModelAccessStep" ->
             JujuGrantModelAccessStep_run(s, ww, c)
      [] s.cls = "RemoveJujuUserStep" -> RemoveJujuUserStep_run(s, ww, c)
      [] s.cls = "RegisterJujuUserStep" -> RegisterJujuUserStep_run(s, ww, c)
      [] s.cls = "AddJujuMachineStep" -> AddJujuMachineStep_run(s, ww, c)
      [] s.cls = "RemoveJujuMachineStep" ->
             RemoveJujuMachineStep_run(s, ww, c)
      [] s.cls = "BackupBootstrapUserStep" ->
             BackupBootstrapUserStep_run(s, ww, c)
      [] s.cls = "SaveJujuUserLocallyStep" ->
             SaveJujuUserLocallyStep_run(s, ww, c)
      [] s.cls = "JujuLoginStep" -> JujuLoginStep_run(s, ww, c)
      [] s.cls = "AddMicrok8sCloudStep" -> AddMicrok8sCloudStep_run(s, ww, c)
      [] s.cls = "StoreMicrok8sConfigStep" ->
             StoreMicrok8sConfigStep_run(s, ww, c)
      [] s.cls = "DeployControlPlaneStep" ->
             DeployControlPlaneStep_run(s, ww, c)
      [] s.cls = "ClusterAddJujuUserStep" ->
             ClusterAddJujuUserStep_run(s, ww, c)
      [] s.cls = "WriteJujuStatusStep" -> WriteJujuStatusStep_run(s, ww, c)
      [] s.cls = "WriteCharmLogStep" -> WriteCharmLogStep_run(s, ww, c)
      [] OTHER -> External_run(s, ww, c)

HasPrompts(s) ==
    CASE s.cls = "BootstrapJujuStep" -> BootstrapJujuStep_has_prompts(s)
      [] s.cls = "DeployMicrok8sApplicationStep" ->
             DeployMicrok8sApplicationStep_has_prompts(s)
      [] OTHER -> BaseStep_has_prompts(s)

Prompt(s, ww) ==
    CASE s.cls = "BootstrapJujuStep" -> BootstrapJujuStep_prompt(s, ww)
      [] s.cls = "DeployMicrok8sApplicationStep" ->
             DeployMicrok8sApplicationStep_prompt(s, ww)
      [] OTHER -> [inst |-> s, w |-> ww]

\* what the collaborators may do during is_skip of an instance
SkipFaults(cls) ==
    CASE cls \in {"ScaleJujuStep", "JujuGrantModelAccessStep",
                  "SaveJujuUserLocallyStep", "AddMicrok8sCloudStep",
                  "StoreMicrok8sConfigStep", "DeployControlPlaneStep"} -> {0}
      [] cls = "BootstrapJujuStep" -> {0, 1, 2}
      [] cls = "JujuLoginStep" -> {0, 1, 2, 3}
      [] OTHER -> {0, 1}

RunFaults(cls) ==
    CASE cls = "CreateJujuUserStep" -> {0, 1, 2, 3, 4, 5}
      [] cls = "AddJujuMachineStep" -> {0, 1, 2, 3, 4}
      [] cls \in {"JujuGrantModelAccessStep", "DeployControlPlaneStep"} ->
             {0, 1, 2, 3}
      [] cls \in {"ScaleJujuStep", "RegisterJujuUserStep", "JujuLoginStep",
                  "StoreMicrok8sConfigStep"} -> {0, 1, 2}
      [] cls \in {"BackupBootstrapUserStep", "SaveJujuUserLocallyStep"} -> {0}
      [] OTHER -> {0, 1}

SkipChoices(s) ==
    IF s.cls \in ModelledClasses
    THEN {Choice(f, COMPLETED, "pw1") : f \in SkipFaults(s.cls)}
    ELSE {Choice(0, k, "pw1") : k \in {COMPLETED, FAILED, SKIPPED}}

RunChoices(s) ==
    IF s.cls = "SaveJujuUserLocallyStep"
    THEN {Choice(0, COMPLETED, pw) : pw \in Passwords}
    ELSE IF s.cls \in ModelledClasses
    THEN {Choice(f, COMPLETED, "pw1") : f \in RunFaults(s.cls)}
    ELSE {Choice(0, k, "pw1") : k \in {COMPLETED, FAILED}}

-----------------------------------------------------------------------------
(* jobs/common.py run_plan and get_step_message *)

\* variant: every step is recorded under one key
StepKey_Same(s) == "Step"

\* the key of a step in the outcome map: callers read the map by class name
StepKey(s) == s.cls

Keys(res) == {res[k].key : k \in 1..Len(res)}

\* results[key] = out on an insertion-ordered map
Put(res, key, out) ==
    IF key \in Keys(res)
    THEN [k \in 1..Len(res) |->
             IF res[k].key = key THEN [key |-> key, out |-> out] ELSE res[k]]
    ELSE Append(res, [key |-> key, out |-> out])

\* results.get(key)
Get(res, key) ==
    IF key \in Keys(res)
    THEN (CHOOSE e \in {res[k] : k \in 1..Len(res)} : e.key = key).out
    ELSE Result(NoneV, NoneV)

\* get_step_message(plan_results, step_class)
get_step_message(res, cls) ==
    IF cls \in Keys(res) THEN Get(res, cls).msg ELSE NoneV

\* variant: run_plan hands the map back to its caller after a FAILED step too
Succeeded_OnReturn == phase = "returned"

\* the plan went through all its steps and none failed
Succeeded ==
    /\ phase = "returned"
    /\ Len(outs) = Len(plan)
    /\ \A k \in 1..Len(outs) : outs[k].kind \in {COMPLETED, SKIPPED}

\* the plan stopped at a FAILED step
Aborted ==
    /\ phase = "returned"
    /\ Len(outs) > 0
    /\ outs[Len(outs)].kind = FAILED

\* the loop moves on to the next step, or returns the map after the last one
NextStep ==
    /\ i' = i + 1
    /\ phase' = IF i + 1 > Len(plan) THEN "returned" ELSE "is_skip"

\* run_plan: step.is_skip(); SKIPPED is recorded and the loop continues,
\* FAILED is recorded and ends the plan, COMPLETED leads to prompt / run
CallIsSkip ==
    /\ phase = "is_skip"
    /\ \E c \in SkipChoices(plan[i]) :
         LET r == IsSkip(plan[i], w, c) IN
         /\ calls' = Append(calls, <<i, "is_skip">>)
         /\ skips' = Append(skips, r.out.kind)
         /\ sk' = [n |-> 1, inst |-> plan[i], c |-> c, w0 |-> w,
                   k1 |-> r.out.kind, k2 |-> NoneV]
         /\ plan' = [plan EXCEPT ![i] = r.inst]
         /\ w' = r.w
         /\ CASE r.out.kind = SKIPPED ->
                   /\ results' = Put(results, StepKey(plan[i]), r.out)
                   /\ outs' = Append(outs, r.out)
                   /\ NextStep
              [] r.out.kind = FAILED ->
                   /\ results' = Put(results, StepKey(plan[i]), r.out)
                   /\ outs' = Append(outs, r.out)
                   /\ phase' = "returned"
                   /\ i' = i
              [] r.out.kind = RAISED ->
                   /\ outs' = Append(outs, r.out)
                   /\ phase' = "raised"
                   /\ UNCHANGED <<results, i>>
              [] OTHER ->
                   /\ phase' = IF HasPrompts(plan[i]) THEN "prompt" ELSE "run"
                   /\ UNCHANGED <<results, outs, i>>
    /\ UNCHANGED <<cmd, ses, stage, runs>>

\* run_plan: step.prompt(console), only for a step that has prompts
CallPrompt ==
    /\ phase = "prompt"
    /\ LET r == Prompt(plan[i], w) IN
         /\ plan' = [plan EXCEPT ![i] = r.inst]
         /\ w' = r.w
    /\ calls' = Append(calls, <<i, "prompt">>)
    /\ phase' = "run"
    /\ UNCHANGED <<i, results, skips, outs, cmd, ses, stage, runs, sk>>

\* run_plan: step.run(); the Result is recorded, FAILED ends the plan
CallRun ==
    /\ phase = "run"
    /\ \E c \in RunChoices(plan[i]) :
         LET r == Run(plan[i], w, c) IN
         /\ calls' = Append(calls, <<i, "run">>)
         /\ plan' = [plan EXCEPT ![i] = r.inst]
         /\ w' = r.w
         /\ outs' = Append(outs, r.out)
         /\ CASE r.out.kind = FAILED ->
                   /\ results' = Put(results, StepKey(plan[i]), r.out)
                   /\ phase' = "returned"
                   /\ i' = i
              [] r.out.kind = RAISED ->
                   /\ phase' = "raised"
                   /\ UNCHANGED <<results, i>>
              [] OTHER ->
                   /\ results' = Put(results, StepKey(plan[i]), r.out)
                   /\ NextStep
    /\ UNCHANGED <<skips, cmd, ses, stage, runs, sk>>

\* run_plan(plan, console) is entered with the given plan
Enter(p) ==
    /\ plan = p
    /\ i = 1
    /\ phase = IF Len(p) = 0 THEN "returned" ELSE "is_skip"
    /\ results = <<>>
    /\ calls = <<>>
    /\ skips = <<>>
    /\ outs = <<>>

\* no method call is being followed command by command
NoSes == [kind |-> "none"]

\* sk: the latest is_skip call (instance, choice and collaborators it met)
NoSk == [n |-> 0, inst |-> Step("none"), c |-> Choice(0, COMPLETED, "pw1"),
         w0 |-> Fresh, k1 |-> NoneV, k2 |-> NoneV]

-----------------------------------------------------------------------------
(* provider/local/commands.py: the plans the commands assemble *)

S(cls) == Step(cls)

JujuLoginStep(acct) == [Step("JujuLoginStep") EXCEPT !.acct = acct]

ClusterAddJujuUserStep(token) ==
    [Step("ClusterAddJujuUserStep") EXCEPT !.token = token]

DeployControlPlaneStep(topology, database, force) ==
    [Step("DeployControlPlaneStep") EXCEPT !.topology = topology,
                                            !.database = database,
                                            !.force = force]

DeployMicrok8sApplicationStep(refresh) ==
    [Step("DeployMicrok8sApplicationStep") EXCEPT !.refresh = refresh]

\* bootstrap: plan
bootstrap_plan(ww) ==
    <<JujuLoginStep(ww.account), S("ClusterInitStep"), S("AddManifestStep"),
      S("PromptForProxyStep")>>

bootstrap_plan1 == <<S("AddCloudJujuStep"), S("BootstrapJujuStep")>>

bootstrap_plan2 ==
    <<S("CreateJujuUserStep"), S("ClusterUpdateJujuControllerStep")>>

\* token = get_step_message(plan2_results, CreateJujuUserStep)
bootstrap_plan3(token) ==
    <<ClusterAddJujuUserStep(token), S("BackupBootstrapUserStep"),
      S("SaveJujuUserLocallyStep"), S("RegisterJujuUserStep")>>

\* bootstrap: plan4; the bootstrap node always holds the control role
bootstrap_plan4(k8s_provider, is_storage_node, topology, database) ==
    <<S("TerraformInitStep"),
      [S("DeploySunbeamMachineApplicationStep") EXCEPT !.refresh = TRUE],
      S("AddSunbeamMachineUnitsStep")>>
    \o (IF k8s_provider = "k8s"
        THEN <<S("TerraformInitStep"), S("DeployK8SApplicationStep"),
               S("AddK8SUnitsStep"), S("EnableK8SFeatures"),
               S("StoreK8SKubeConfigStep"), S("AddK8SCloudStep")>>
        ELSE <<S("TerraformInitStep"), DeployMicrok8sApplicationStep(FALSE),
               S("AddMicrok8sUnitsStep"), S("StoreMicrok8sConfigStep"),
               S("AddMicrok8sCloudStep")>>)
    \o <<S("TerraformInitStep"), S("DeployMicrocephApplicationStep")>>
    \o (IF is_storage_node
        THEN <<S("AddMicrocephUnitsStep"), S("ConfigureMicrocephOSDStep")>>
        ELSE <<>>)
    \o <<S("TerraformInitStep"),
         DeployControlPlaneStep(topology, database, FALSE)>>

bootstrap_plan5(is_compute_node) ==
    <<S("ConfigureMySQLStep"), S("PatchLoadBalancerServicesStep"),
      S("TerraformInitStep"), S("DeployHypervisorApplicationStep")>>
    \o (IF is_compute_node THEN <<S("AddHypervisorUnitsStep")>> ELSE <<>>)
    \o <<S("SetBootstrapped")>>

add_plan1(ww) ==
    <<JujuLoginStep(ww.account), S("ClusterAddNodeStep"),
      S("CreateJujuUserStep"), S("JujuGrantModelAccessStep")>>

\* user_token = get_step_message(plan1_results, CreateJujuUserStep)
add_plan2(user_token) == <<ClusterAddJujuUserStep(user_token)>>

join_plan1(ww) ==
    <<JujuLoginStep(ww.account), S("ClusterJoinNodeStep"),
      S("SaveJujuUserLocallyStep"), S("RegisterJujuUserStep"),
      S("AddJujuMachineStep")>>

remove_plan(ww, k8s_provider) ==
    <<JujuLoginStep(ww.account), S("RemoveSunbeamMachineStep"),
      IF k8s_provider = "k8s" THEN S("RemoveK8SUnitStep")
      ELSE S("RemoveMicrok8sUnitStep"),
      S("RemoveMicrocephUnitStep"), S("RemoveHypervisorUnitStep"),
      S("RemoveJujuMachineStep"), S("ClusterRemoveNodeStep")>>

-----------------------------------------------------------------------------
(* The states a machine is in between the plans of the commands *)

\* after bootstrap plan1: cloud added, controller bootstrapped
Bootstrapped ==
    [Fresh EXCEPT !.cloud = TRUE, !.controller = TRUE, !.whoami = "admin"]

\* after `juju add-user` succeeded and a grant failed
UserWithoutGrants == [Bootstrapped EXCEPT !.user = TRUE, !.regtoken = Token]

\* after bootstrap plan2
UserCreated == [UserWithoutGrants EXCEPT !.su = TRUE, !.adm = TRUE]

\* after bootstrap plan3
Registered ==
    [UserCreated EXCEPT !.dbtoken = Token, !.backup = TRUE,
                        !.account = "pw1", !.whoami = FQDN]

\* after bootstrap plan4 of a microk8s deployment
Deployed(topo) ==
    [Registered EXCEPT !.kubeconfig = TRUE, !.k8scloud = TRUE, !.machine = TRUE,
                       !.topo = topo]

\* a node about to join: the cluster database holds its token
Joining == [Fresh EXCEPT !.dbtoken = Token]

Topologies == {"auto", "single", "multi", "large"}
Databases == {"auto", "single", "multi"}

\* the Topology configs DeployControlPlaneStep.run can have written
PersistedTopologies ==
    {[set |-> TRUE, topology |-> tp, database |-> db] :
        tp \in {"single", "multi", "large"}, db \in {"single", "multi"}}

NodeCounts == {1, 3, MaxNodes}

Sized(ww, n, low) == [ww EXCEPT !.ncombined = n, !.ramLow = low]

Worlds ==
    {Fresh, Bootstrapped, UserWithoutGrants, UserCreated, Registered, Joining,
     [Fresh EXCEPT !.cloud = TRUE], [Registered EXCEPT !.nodeInDb = FALSE],
     [Registered EXCEPT !.cred = TRUE]}
    \cup {Deployed(tp) : tp \in PersistedTopologies}

TopologyWorlds ==
    {Sized([Registered EXCEPT !.topo = tp], n, low) :
        tp \in PersistedTopologies \cup {NoTopology},
        n \in NodeCounts, low \in BOOLEAN}

\* plans of a single step, as the commands outside these files build them
Instances ==
    {S(cls) : cls \in ModelledClasses \ {"JujuLoginStep",
                                         "DeployControlPlaneStep"}}
    \cup {JujuLoginStep(a) : a \in {NoneV, "pw1"}}
    \cup {[S("AddCloudJujuStep") EXCEPT !.ctype = "lxd"]}
    \cup {DeployMicrok8sApplicationStep(r) : r \in BOOLEAN}
    \cup {ClusterAddJujuUserStep(tk) : tk \in {NoneV, Token}}

ControlPlaneInstances ==
    {DeployControlPlaneStep(tp, db, f) :
        tp \in Topologies, db \in Databases, f \in BOOLEAN}

Start(name, p, ww) == [name |-> name, plan |-> p, w |-> ww]

Starts ==
    {Start("bootstrap.plan", bootstrap_plan(ww), ww) :
        ww \in {Fresh, Registered}}
    \cup {Start("bootstrap.plan1", bootstrap_plan1, ww) :
        ww \in {Fresh, [Fresh EXCEPT !.cloud = TRUE], Bootstrapped}}
    \cup {Start("bootstrap.plan2", bootstrap_plan2, ww) :
        ww \in {Bootstrapped, UserWithoutGrants, UserCreated}}
    \cup {Start("bootstrap.plan3", bootstrap_plan3(tk), ww) :
        tk \in {NoneV, Token}, ww \in {UserCreated, Registered}}
    \cup {Start("bootstrap.plan4",
                 bootstrap_plan4("microk8s", TRUE, "auto", "auto"), Registered),
           Start("bootstrap.plan4",
                 bootstrap_plan4("k8s", FALSE, "auto", "auto"), Registered),
           Start("bootstrap.plan4",
                 bootstrap_plan4("microk8s", FALSE, "auto", "multi"),
                 Deployed([set |-> TRUE, topology |-> "single",
                           database |-> "single"]))}
    \cup {Start("bootstrap.plan5", bootstrap_plan5(cn), ww) :
        cn \in BOOLEAN, ww \in {Deployed(NoTopology)}}
    \cup {Start("add.plan1", add_plan1(ww), ww) :
        ww \in {Registered, [Registered EXCEPT !.user = FALSE]}}
    \cup {Start("add.plan2", add_plan2(tk), ww) :
        tk \in {NoneV, Token}, ww \in {Registered}}
    \cup {Start("join.plan1", join_plan1(ww), ww) :
        ww \in {Joining, [Joining EXCEPT !.account = "pw1"]}}
    \cup {Start("remove.plan", remove_plan(ww, kp), ww) :
        kp \in {"k8s", "microk8s"}, ww \in {Deployed(NoTopology)}}
    \cup {Start("step", <<s>>, ww) : s \in Instances, ww \in Worlds}
    \cup {Start("step", <<s>>, ww) :
        s \in ControlPlaneInstances, ww \in TopologyWorlds}

-----------------------------------------------------------------------------
(* Spec: one plan, handed to run_plan *)

Init ==
    \E st \in Starts :
        /\ Enter(st.plan)
        /\ w = st.w
        /\ cmd = st.name
        /\ stage = 0
        /\ runs = 1
        /\ sk = NoSk
        /\ ses = NoSes

Next == CallIsSkip \/ CallPrompt \/ CallRun

Spec == Init /\ [][Next]_vars

-----------------------------------------------------------------------------
(* The callers of run_plan *)

\* run_plan is entered again, with plan p
EnterNext(p) ==
    /\ plan' = p
    /\ i' = 1
    /\ phase' = IF Len(p) = 0 THEN "returned" ELSE "is_skip"
    /\ results' = <<>>
    /\ calls' = <<>>
    /\ skips' = <<>>
    /\ outs' = <<>>
    /\ sk' = NoSk

Stopped == phase \in {"returned", "raised"}

-----------------------------------------------------------------------------
(* SpecTopo: DeployControlPlaneStep over a deployment that is deployed,     *)
(* resized and refreshed again and again while nodes are added              *)

InitTopo ==
    \E s \in ControlPlaneInstances, n \in NodeCounts, low \in BOOLEAN :
        /\ Enter(<<s>>)
        /\ w = Sized([Registered EXCEPT !.kubeconfig = TRUE,
                                        !.k8scloud = TRUE], n, low)
        /\ cmd = "deploy"
        /\ stage = 0
        /\ runs = 1
        /\ sk = NoSk
        /\ ses = NoSes

\* a later command builds a fresh DeployControlPlaneStep, with any arguments
NewLifecycle ==
    /\ Stopped
    /\ runs < MaxRuns
    /\ \E s \in ControlPlaneInstances : EnterNext(<<s>>)
    /\ runs' = runs + 1
    /\ UNCHANGED <<w, cmd, ses, stage>>

\* nodes join the deployment
Grow ==
    /\ \E n \in {m \in NodeCounts : m > w.ncombined} :
         w' = [w EXCEPT !.ncombined = n]
    /\ UNCHANGED <<plan, i, phase, results, calls, skips, outs, cmd, ses, stage,
                   runs, sk>>

NextTopo == CallIsSkip \/ CallRun \/ NewLifecycle \/ Grow

SpecTopo == InitTopo /\ [][NextTopo]_vars

-----------------------------------------------------------------------------
(* SpecSkip: is_skip called twice on one instance, nothing in between *)

SkipInstances ==
    {s \in Instances : s.cls \in ModelledClasses} \cup ControlPlaneInstances

InitSkip ==
    \E s \in SkipInstances, ww \in Worlds \cup TopologyWorlds :
        /\ plan = <<s>>
        /\ i = 1
        /\ phase = "skip0"
        /\ results = <<>>
        /\ calls = <<>>
        /\ skips = <<>>
        /\ outs = <<>>
        /\ w = ww
        /\ cmd = "is_skip"
        /\ stage = 0
        /\ runs = 1
        /\ sk = NoSk
        /\ ses = NoSes

\* the first call; what the collaborators answer is c
SkipOnce ==
    /\ phase = "skip0"
    /\ \E c \in SkipChoices(plan[1]) :
         LET r == IsSkip(plan[1], w, c) IN
         /\ sk' = [n |-> 1, inst |-> plan[1], c |-> c, w0 |-> w,
                   k1 |-> r.out.kind, k2 |-> NoneV]
         /\ plan' = <<r.inst>>
         /\ w' = r.w
         /\ calls' = Append(calls, <<1, "is_skip">>)
         /\ skips' = Append(skips, r.out.kind)
    /\ phase' = "skip1"
    /\ UNCHANGED <<i, results, outs, cmd, ses, stage, runs>>

\* the second call, on the instance as the first call left it; the
\* collaborators are as they were, so they answer as before
SkipTwice ==
    /\ phase = "skip1"
    /\ LET r == IsSkip(plan[1], w, sk.c) IN
         /\ sk' = [sk EXCEPT !.n = 2, !.k2 = r.out.kind]
         /\ plan' = <<r.inst>>
         /\ w' = r.w
         /\ calls' = Append(calls, <<1, "is_skip">>)
         /\ skips' = Append(skips, r.out.kind)
    /\ phase' = "skip2"
    /\ UNCHANGED <<i, results, outs, cmd, ses, stage, runs>>

NextSkip == SkipOnce \/ SkipTwice

SpecSkip == InitSkip /\ [][NextSkip]_vars

-----------------------------------------------------------------------------
(* SpecCmd: the commands bootstrap (plan1, plan2, plan3), add (plan1,       *)
(* plan2) and join (plan1), run again after a failure                       *)

\* the cluster before `add`: the user of the new node does not exist yet
BeforeAdd ==
    [Registered EXCEPT !.user = FALSE, !.su = FALSE, !.adm = FALSE,
                       !.regtoken = NoneV, !.dbtoken = NoneV]

LastStage(c) == IF c = "bootstrap" THEN 3 ELSE IF c = "add" THEN 2 ELSE 1

\* the plan of stage st of command c, given the map of the plan before it
PlanOf(c, st, res, ww) ==
    IF c = "bootstrap"
    THEN CASE st = 1 -> bootstrap_plan1
           [] st = 2 -> bootstrap_plan2
           [] OTHER ->
                bootstrap_plan3(get_step_message(res, "CreateJujuUserStep"))
    ELSE IF c = "add"
    THEN CASE st = 1 -> add_plan1(ww)
           [] OTHER -> add_plan2(get_step_message(res, "CreateJujuUserStep"))
    ELSE join_plan1(ww)

InitCmd ==
    \E c \in {"bootstrap", "add", "join"} :
        /\ cmd = c
        /\ w = IF c = "bootstrap" THEN Fresh
               ELSE IF c = "add" THEN BeforeAdd ELSE Joining
        /\ Enter(PlanOf(c, 1, <<>>, w))
        /\ stage = 1
        /\ runs = 1
        /\ sk = NoSk
        /\ ses = NoSes

\* run_plan returned without a FAILED step: the command builds its next plan
NextPlan ==
    /\ Succeeded
    /\ stage < LastStage(cmd)
    /\ EnterNext(PlanOf(cmd, stage + 1, results, w))
    /\ stage' = stage + 1
    /\ UNCHANGED <<w, cmd, ses, runs>>

\* the command stopped on a FAILED step or an exception; the operator runs
\* it again on the same machine
Rerun ==
    /\ Stopped
    /\ ~Succeeded
    /\ runs < MaxRuns
    /\ EnterNext(PlanOf(cmd, 1, <<>>, w))
    /\ stage' = 1
    /\ runs' = runs + 1
    /\ UNCHANGED <<w, cmd, ses>>

NextCmd == CallIsSkip \/ CallPrompt \/ CallRun \/ NextPlan \/ Rerun

SpecCmd == InitCmd /\ [][NextCmd]_vars

-----------------------------------------------------------------------------
(* Reading the histories *)

Called(k, m) == \E j \in 1..Len(calls) : calls[j] = <<k, m>>

Pos(k, m) == CHOOSE j \in 1..Len(calls) : calls[j] = <<k, m>>

\* the kind the is_skip call of step k returned
SkipKind(k) ==
    skips[Cardinality({x \in 1..Pos(k, "is_skip") : calls[x][2] = "is_skip"})]

\* step k is over: it was skipped, failed, or its run returned or raised
Over(k) == k <= Len(outs)

LastOfClass(k) ==
    \A j \in (k + 1)..Len(outs) : plan[j].cls # plan[k].cls

FirstIdx(cls) ==
    CHOOSE k \in 1..Len(plan) :
        /\ plan[k].cls = cls
        /\ \A j \in 1..(k - 1) : plan[j].cls # cls

\* a FAILED outcome is the last thing that happens in a plan
AbortOnFailed ==
    \A k \in 1..Len(outs) :
        outs[k].kind = FAILED =>
            /\ k = Len(outs)
            /\ phase = "returned"
            /\ i = k
            /\ \A j \in 1..Len(calls) : calls[j][1] <= k

\* the map holds an entry for every step that is over, and nothing else
MapPerStep ==
    /\ Len(results) = Len(outs)
    /\ \A k \in 1..Len(outs) :
         results[k] = [key |-> StepKey(plan[k]), out |-> outs[k]]

\* the map holds one entry per class of the steps that are over: the outcome
\* of the last of them
MapPerClass ==
    /\ Keys(results) = {plan[k].cls : k \in 1..Len(outs)}
    /\ Len(results) = Cardinality(Keys(results))
    /\ \A k \in 1..Len(outs) :
         LastOfClass(k) => Get(results, plan[k].cls) = outs[k]

\* C1 (as stated): after a FAILED step i nothing of steps i+1..n is invoked and
\* the returned map holds exactly the outcomes of steps 1..i, one per step
C1_AbortMapPerStep == AbortOnFailed /\ (Aborted => MapPerStep)

\* C1 (amended): after a FAILED step i nothing of steps i+1..n is invoked, and
\* the returned map holds one entry per step class among steps 1..i (the
\* outcome of the last step of that class) and no entry of a later step
C1_AbortMapPerClass == AbortOnFailed /\ (Aborted => MapPerClass)

\* a plan was aborted after a second step of an already seen class, with
\* steps left over
C1_Witness ==
    /\ Aborted
    /\ Len(outs) < Len(plan)
    /\ \E k \in 1..Len(outs) : ~LastOfClass(k)

\* C2: is_skip comes first; run only after is_skip returned COMPLETED; no
\* prompt or run after SKIPPED; prompt exactly when is_skip returned COMPLETED
\* and has_prompts() is true, and before run; DeployMicrok8sApplicationStep
\* with refresh=True is never prompted, BootstrapJujuStep is always prompted
\* before it runs
C2_Protocol ==
    \A k \in 1..Len(plan) :
        /\ \A m \in {"is_skip", "prompt", "run"} :
             Cardinality({j \in 1..Len(calls) : calls[j] = <<k, m>>}) <= 1
        /\ (Called(k, "prompt") \/ Called(k, "run")) =>
             /\ Called(k, "is_skip")
             /\ SkipKind(k) = COMPLETED
        /\ Called(k, "prompt") =>
             /\ Pos(k, "is_skip") < Pos(k, "prompt")
             /\ HasPrompts(plan[k])
        /\ Called(k, "run") =>
             /\ Pos(k, "is_skip") < Pos(k, "run")
             /\ HasPrompts(plan[k]) <=> Called(k, "prompt")
             /\ Called(k, "prompt") => Pos(k, "prompt") < Pos(k, "run")
        /\ (Called(k, "is_skip") /\ SkipKind(k) = COMPLETED
              /\ HasPrompts(plan[k]) /\ ~(i = k /\ phase = "prompt")) =>
             Called(k, "prompt")
        /\ (plan[k].cls = "DeployMicrok8sApplicationStep" /\ plan[k].refresh) =>
             ~Called(k, "prompt")
        /\ (plan[k].cls = "BootstrapJujuStep" /\ Called(k, "run")) =>
             /\ Called(k, "prompt")
             /\ Pos(k, "prompt") < Pos(k, "run")

\* a refreshing DeployMicrok8sApplicationStep has run, and so has a
\* BootstrapJujuStep in another plan
C2_Witness ==
    \E k \in 1..Len(plan) :
        /\ Called(k, "run")
        /\ plan[k].cls = "DeployMicrok8sApplicationStep"
        /\ plan[k].refresh

\* C3: the steps of a plan run strictly one after another: the calls are in
\* step order and is_skip of step k+1 comes only after step k was skipped or
\* its run returned, so a skip-check meets the effects of the steps before it:
\* where SaveJujuUserLocallyStep precedes RegisterJujuUserStep, the is_skip of
\* RegisterJujuUserStep loads the account file the plan left behind
C3_Sequential ==
    /\ \A a, b \in 1..Len(calls) : a < b => calls[a][1] <= calls[b][1]
    /\ \A k \in 2..Len(plan) :
         Called(k, "is_skip") =>
            /\ Called(k - 1, "is_skip")
            /\ Pos(k - 1, "is_skip") < Pos(k, "is_skip")
            /\ \/ SkipKind(k - 1) = SKIPPED
               \/ /\ Called(k - 1, "run")
                  /\ Pos(k - 1, "run") < Pos(k, "is_skip")
                  /\ outs[k - 1].kind = COMPLETED
    /\ \A k \in 1..Len(plan) :
         (/\ plan[k].cls = "RegisterJujuUserStep"
          /\ \E j \in 1..(k - 1) : plan[j].cls = "SaveJujuUserLocallyStep"
          /\ Called(k, "is_skip")) =>
            /\ w.account # NoneV
            /\ Over(k) => outs[k].msg # "Account was not registered locally"
            /\ SkipKind(k) \in {COMPLETED, SKIPPED} => plan[k].acct = w.account

\* bootstrap plan3 on a machine without an account file: the run of
\* SaveJujuUserLocallyStep wrote it and RegisterJujuUserStep.is_skip loaded it
C3_Witness ==
    /\ cmd = "bootstrap.plan3"
    /\ Called(3, "run")
    /\ Called(4, "is_skip")
    /\ plan[4].acct \in Passwords

\* C4 (as stated): a plan of n steps that all end SKIPPED or COMPLETED returns
\* a map of exactly n entries, one per step, in submission order
C4_EntryPerStep == Succeeded => (Len(results) = Len(plan) /\ MapPerStep)

\* C4 (amended): a plan whose steps all end SKIPPED or COMPLETED returns a map
\* with one entry per distinct step class, in the order of the first step of
\* each class, holding the outcome of the last step of that class; it has n
\* entries exactly when no two steps of the plan share a class
C4_EntryPerClass ==
    Succeeded =>
        /\ MapPerClass
        /\ \A a, b \in 1..Len(results) :
             a < b => FirstIdx(results[a].key) < FirstIdx(results[b].key)
        /\ (Len(results) = Len(plan)) <=>
             (\A a, b \in 1..Len(plan) : plan[a].cls = plan[b].cls => a = b)

\* bootstrap plan4, with its four TerraformInitStep, went through
C4_Witness ==
    /\ Succeeded
    /\ cmd = "bootstrap.plan4"
    /\ Len(results) < Len(plan)

\* the steps of commands/juju.py
JujuSteps ==
    {"AddCloudJujuStep", "AddCredentialsJujuStep", "BootstrapJujuStep",
     "ScaleJujuStep", "CreateJujuUserStep", "JujuGrantModelAccessStep",
     "RemoveJujuUserStep", "RegisterJujuUserStep", "AddJujuMachineStep",
     "RemoveJujuMachineStep", "BackupBootstrapUserStep",
     "SaveJujuUserLocallyStep", "JujuLoginStep"}

\* C5: no process error leaves is_skip or run of a step of commands/juju.py:
\* a command that exits non-zero ends in a FAILED Outcome handed to run_plan
C5_NoProcessErrorEscapes ==
    \A k \in 1..Len(outs) :
        plan[k].cls \in JujuSteps =>
            ~(outs[k].kind = RAISED /\ outs[k].msg = CalledProcessError)

\* the latest is_skip call was one of a step whose query of the juju CLI or
\* of the cluster database failed
QueryFailed ==
    /\ sk.n = 1
    /\ CASE sk.inst.cls \in {"AddCloudJujuStep", "AddCredentialsJujuStep",
                             "BootstrapJujuStep", "CreateJujuUserStep",
                             "RemoveJujuUserStep", "AddJujuMachineStep"} ->
                sk.c.f = 1
         [] sk.inst.cls = "RemoveJujuMachineStep" ->
                ~sk.w0.nodeInDb \/ sk.c.f = 1
         [] sk.inst.cls = "BackupBootstrapUserStep" ->
                ShowUserFails(sk.w0, sk.c)
         [] OTHER -> FALSE

\* RegisterJujuUserStep.is_skip got as far as show-user, which exited non-zero
ShowUserFailed ==
    /\ sk.n = 1
    /\ sk.inst.cls = "RegisterJujuUserStep"
    /\ sk.w0.account # NoneV
    /\ ShowUserFails(sk.w0, sk.c)

\* is_skip returned FAILED and the plan ended there, run not attempted
SkipFailed ==
    /\ sk.k1 = FAILED
    /\ phase = "returned"
    /\ ~Called(i, "run")
    /\ ~Called(i, "prompt")

SingleToMulti ==
    /\ sk.n = 1
    /\ sk.inst.cls = "DeployControlPlaneStep"
    /\ sk.w0.topo.set
    /\ sk.w0.topo.database = "single"
    /\ plan[1].database = "multi"

\* C7: with database 'single' persisted, a DeployControlPlaneStep whose
\* resolved database is 'multi' returns FAILED from is_skip with the message
\* about the database topology, run is never reached and the persisted
\* Topology config stays as it was
C7_SingleToMultiFails ==
    SingleToMulti =>
        /\ sk.k1 = FAILED
        /\ outs = <<Result(FAILED, DatabaseChangeMsg)>>
        /\ phase = "returned"
        /\ ~Called(1, "run")
        /\ w.topo = sk.w0.topo

\* the case happened: topology 'multi' with database 'single' was persisted
\* and a later step asked for database 'multi'
C7_Witness ==
    /\ SingleToMulti
    /\ sk.w0.topo.topology = "multi"
    /\ sk.k1 = FAILED

\* C8: once a database topology is persisted it never changes: every later
\* write of the Topology config carries the same database value
C8_DatabaseNeverChanges ==
    [][w.topo.set => (w'.topo.set /\ w'.topo.database = w.topo.database)]_vars

\* a later lifecycle wrote the config again, with another topology and the
\* database it found
C8_Witness ==
    /\ runs > 1
    /\ Called(1, "run")
    /\ sk.w0.topo.set
    /\ w.topo.topology # sk.w0.topo.topology
    /\ w.topo.database = sk.w0.topo.database

\* C9: the token handed to ClusterAddJujuUserStep is the registration token
\* `juju add-user` printed for the user, on a first run of the command and on
\* a run after a failure that left the user created
C9_TokenHandedOver ==
    \A k \in 1..Len(plan) :
        (plan[k].cls = "ClusterAddJujuUserStep" /\ w.regtoken # NoneV) =>
            plan[k].token = w.regtoken

\* C10: two is_skip calls in a row on one instance, the collaborators
\* unchanged, return the same kind, and neither changes a collaborator
C10_IsSkipTwice ==
    /\ sk.n >= 1 => w = sk.w0
    /\ sk.n = 2 => sk.k1 = sk.k2

\* DeployControlPlaneStep.is_skip overwrote 'auto' twice over on the first
\* call and was called again
C10_Witness ==
    /\ sk.n = 2
    /\ sk.inst.cls = "DeployControlPlaneStep"
    /\ sk.inst.topology = "auto"
    /\ sk.inst.database = "auto"
    /\ plan[1].topology = "large"
    /\ plan[1].database = "multi"

-----------------------------------------------------------------------------
(* commands/juju.py: the pexpect sessions of RegisterJujuUserStep.run,      *)
(* AddJujuMachineStep.run, JujuLoginStep.is_skip and JujuLoginStep.run,     *)
(* followed one expect() at a time against a process that writes what it    *)
(* likes.  Output is a sequence of tokens: a prompt, the text ERROR, or     *)
(* other text.                                                              *)

\* tokens of a log file, and of the sent values, the model keeps
MaxLog == 2

\* tokens the process may have written that expect() has not yet matched
MaxBuf == 2

EOF == "pexpect.EOF"

OtherText == "text"

ErrorMarker == "ERROR"

\* expect_list of RegisterJujuUserStep.run
RegisterExpectList ==
    <<"Enter a new password", "Confirm password",
      "Enter a name for this controller", "please enter password", EOF>>

\* expect_list of AddJujuMachineStep.run
AddMachineExpectList == <<"Are you sure you want to continue connecting", EOF>>

\* expect_list of JujuLoginStep.is_skip
LoginSkipExpectList == <<"^please enter password", "{}", EOF>>

\* JujuLoginStep.run: expect("^please enter password"), then expect(EOF)
LoginRunExpectList(st) == IF st = 1 THEN <<"^please enter password">> ELSE <<EOF>>

SessionKinds == {"register", "add_machine", "login_is_skip", "login_run"}

ExpectList(s) ==
    CASE s.kind = "register" -> RegisterExpectList
      [] s.kind = "add_machine" -> AddMachineExpectList
      [] s.kind = "login_is_skip" -> LoginSkipExpectList
      [] OTHER -> LoginRunExpectList(s.st)

\* what the juju process of a session may print
Output(kind) ==
    {OtherText, ErrorMarker} \cup
    CASE kind = "register" ->
            {RegisterExpectList[k] : k \in 1..4}
      [] kind = "add_machine" -> {AddMachineExpectList[1]}
      [] kind = "login_is_skip" -> {"please enter password", "{}"}
      [] OTHER -> {"please enter password"}

\* the pattern matches the output at position p; ^ anchors it to the start
Matches(pat, buf, p) ==
    IF pat = "^please enter password"
    THEN p = 1 /\ buf[p] = "please enter password"
    ELSE buf[p] = pat

Hits(table, buf) ==
    {h \in (1..Len(buf)) \X (1..Len(table)) :
        table[h[2]] # EOF /\ Matches(table[h[2]], buf, h[1])}

\* variant: the patterns are tried in table order, the first that matches
\* anywhere wins
TableFirst(table, buf) ==
    CHOOSE h \in Hits(table, buf) :
        \A g \in Hits(table, buf) :
            h[2] < g[2] \/ (h[2] = g[2] /\ h[1] <= g[1])

\* child.expect(expect_list): the match that starts first in the output
\* wins; the table order decides between matches at the same place
FirstInStream(table, buf) ==
    CHOOSE h \in Hits(table, buf) :
        \A g \in Hits(table, buf) :
            h[1] < g[1] \/ (h[1] = g[1] /\ h[2] <= g[2])

Cap(seq) == IF Len(seq) > MaxLog THEN SubSeq(seq, 1, MaxLog) ELSE seq

\* variant: child.logfile = f, which records what is sent as well
Mirror_SentToo(log, read, sent) == Cap(log \o read \o sent)

\* child.logfile_read = f: the file receives what is read from the process
Mirror(log, read, sent) == Cap(log \o read)

\* the value sendline() is called with after pattern `index` matched
Reply(s, index, password) ==
    CASE s.kind = "register" /\ index \in {0, 1, 3} -> <<password>>
      [] s.kind = "register" /\ index = 2 -> <<"controller">>
      [] s.kind = "add_machine" /\ index = 0 -> <<"yes">>
      [] s.kind = "login_run" /\ s.st = 1 -> <<password>>
      [] OTHER -> <<>>

\* variant: the output is never searched
Has_Never(seq, tok) == FALSE

\* "ERROR" in result
Has(seq, tok) == \E k \in 1..Len(seq) : seq[k] = tok

\* variant: result.rfind("ERROR")
FromLast(seq, tok) ==
    SubSeq(seq, CHOOSE k \in 1..Len(seq) :
                    seq[k] = tok /\ \A j \in (k + 1)..Len(seq) : seq[j] # tok,
           Len(seq))

\* result[result.find("ERROR"):]
FromFirst(seq, tok) ==
    SubSeq(seq, CHOOSE k \in 1..Len(seq) :
                    seq[k] = tok /\ \A j \in 1..(k - 1) : seq[j] # tok,
           Len(seq))

\* variant: a timeout reported in the words of a failed login
TimeoutMsg_AsLoginFailure(kind) == <<"Failed to login to Juju Controller">>

TimeoutMsg(kind) ==
    IF kind = "add_machine" THEN <<"TIMED OUT to add machine">>
    ELSE <<PexpectTimeout>>

LoginFailedMsg == <<"Failed to login to Juju Controller">>

\* the session right after pexpect.spawn(...): the twin (log2) is the same
\* session run with the other password
Spawned(kind) ==
    [kind |-> kind, pc |-> "expect", st |-> 1, child |-> "running",
     pending |-> <<>>, buffer |-> <<>>, before |-> <<>>, index |-> -1,
     via |-> "none", prompted |-> FALSE, sent |-> <<>>,
     log |-> <<>>, log2 |-> <<>>, rd |-> <<>>,
     out |-> [kind |-> NoneV, msg |-> <<>>]]

\* RegisterJujuUserStep.run and AddJujuMachineStep.run open a log file
Logged(s) == s.kind \in {"register", "add_machine"}

\* expect() reads what the process wrote, then the step may send a reply
AfterIO(s, read, pw1, pw2, index) ==
    [s EXCEPT
       !.pending = <<>>,
       !.rd = IF Logged(s) THEN Cap(s.rd \o read) ELSE s.rd,
       !.sent = Reply(s, index, pw1),
       !.log = IF Logged(s) THEN Mirror(s.log, read, Reply(s, index, pw1))
               ELSE s.log,
       !.log2 = IF Logged(s) THEN Mirror(s.log2, read, Reply(s, index, pw2))
                ELSE s.log2]

\* the method returns (or an exception leaves it)
Returned(s, kind, msg, via, child) ==
    [s EXCEPT !.pc = "returned", !.out = [kind |-> kind, msg |-> msg],
              !.via = via, !.child = child]

\* `with pexpect.spawn(cmd) as process` closes the child on the way out
ChildAtReturn(s) == IF s.kind = "login_is_skip" THEN "closed" ELSE s.child

InSession == ses.kind \in SessionKinds /\ ses.pc = "expect"

Unmatched == ses.buffer \o ses.pending

\* the juju process prints something
ProcWrite ==
    /\ InSession
    /\ ses.child = "running"
    /\ Len(Unmatched) < MaxBuf
    /\ \E tok \in Output(ses.kind) :
         ses' = [ses EXCEPT !.pending = Append(ses.pending, tok)]
    /\ UNCHANGED <<plan, i, phase, results, calls, skips, outs, w, cmd, stage,
                   runs, sk>>

\* the juju process ends
ProcExit ==
    /\ InSession
    /\ ses.child = "running"
    /\ ses' = [ses EXCEPT !.child = "exited"]
    /\ UNCHANGED <<plan, i, phase, results, calls, skips, outs, w, cmd, stage,
                   runs, sk>>

\* expect() returns the index of a prompt; the step reacts to it (the code
\* reads child.before only after an end-of-stream match, so the field is
\* kept for that match alone)
ExpectMatch ==
    /\ InSession
    /\ Hits(ExpectList(ses), Unmatched) # {}
    /\ LET h == FirstInStream(ExpectList(ses), Unmatched)
           index == h[2] - 1
           s1 == [AfterIO(ses, ses.pending, "pw1", "pw2", index) EXCEPT
                    !.before = <<>>,
                    !.buffer = SubSeq(Unmatched, h[1] + 1, Len(Unmatched)),
                    !.index = index,
                    !.via = "match",
                    !.prompted = TRUE] IN
       ses' = CASE ses.kind = "login_is_skip" ->
                     Returned(s1, COMPLETED, <<>>, "match", "closed")
                [] ses.kind = "login_run" -> [s1 EXCEPT !.st = 2]
                [] OTHER -> s1
    /\ UNCHANGED <<plan, i, phase, results, calls, skips, outs, w, cmd, stage,
                   runs, sk>>

\* what follows an end-of-stream match; ok: the exit status of `juju login`
\* is 0; c: how the machine listing of AddJujuMachineStep.run goes
AfterEOF(s, ok, c) ==
    CASE s.kind = "login_is_skip" ->
            Returned(s, SKIPPED, <<>>, "eof", "closed")
      [] s.kind = "login_run" ->
            IF ok THEN Returned(s, COMPLETED, <<>>, "eof", "closed")
            ELSE Returned(s, FAILED, LoginFailedMsg, "eof", "closed")
      [] Has(s.before, ErrorMarker) ->
            Returned(s, FAILED, FromFirst(s.before, ErrorMarker), "eof",
                     s.child)
      [] s.kind = "register" -> Returned(s, COMPLETED, <<>>, "eof", s.child)
      [] OTHER ->
            IF c = 3
            THEN Returned(s, RAISED, <<CalledProcessError>>, "eof", s.child)
            ELSE IF c = 4
            THEN Returned(s, COMPLETED, <<"-1">>, "eof", s.child)
            ELSE Returned(s, COMPLETED, <<"0">>, "eof", s.child)

\* the stream ended and no prompt is left in the output: expect() returns
\* the index of EOF, or raises pexpect.EOF when the list does not hold it
ExpectEOF ==
    /\ InSession
    /\ ses.child = "exited"
    /\ Hits(ExpectList(ses), Unmatched) = {}
    /\ LET table == ExpectList(ses)
           s1 == [AfterIO(ses, ses.pending, "pw1", "pw2", -1) EXCEPT
                    !.before = Unmatched,
                    !.buffer = <<>>,
                    !.index = Len(table) - 1] IN
       IF table[Len(table)] # EOF
       THEN ses' = Returned(s1, RAISED, <<EOF>>, "eof", s1.child)
       ELSE \E ok \in BOOLEAN, c \in {0, 3, 4} : ses' = AfterEOF(s1, ok, c)
    /\ UNCHANGED <<plan, i, phase, results, calls, skips, outs, w, cmd, stage,
                   runs, sk>>

\* nothing matched within the timeout: expect() raises pexpect.TIMEOUT, which
\* every one of the four methods catches
ExpectTimeout ==
    /\ InSession
    /\ ses.child = "running"
    /\ Hits(ExpectList(ses), Unmatched) = {}
    /\ LET s1 == [AfterIO(ses, ses.pending, "pw1", "pw2", -1) EXCEPT
                    !.buffer = Unmatched] IN
       ses' = Returned(s1, FAILED, TimeoutMsg(ses.kind), "timeout",
                       ChildAtReturn(s1))
    /\ UNCHANGED <<plan, i, phase, results, calls, skips, outs, w, cmd, stage,
                   runs, sk>>

InitSession ==
    /\ \E kind \in SessionKinds : ses = Spawned(kind)
    /\ plan = <<>>
    /\ i = 1
    /\ phase = "session"
    /\ results = <<>>
    /\ calls = <<>>
    /\ skips = <<>>
    /\ outs = <<>>
    /\ w = Fresh
    /\ cmd = "session"
    /\ stage = 0
    /\ runs = 1
    /\ sk = NoSk

StepNext == ExpectMatch \/ ExpectEOF \/ ExpectTimeout

NextSession == ProcWrite \/ ProcExit \/ StepNext

SpecSession == InitSession /\ [][NextSession]_vars

\* the step is scheduled: an expect() that can return does return; nothing
\* is assumed of the process
SpecSessionFair == SpecSession /\ WF_vars(StepNext)

Done == ses.kind \in SessionKinds /\ ses.pc = "returned"

AtEOF == Done /\ ses.via = "eof"

AtTimeout == Done /\ ses.via = "timeout"

ErrorAt(seq, k) ==
    /\ k \in 1..Len(seq)
    /\ seq[k] = ErrorMarker
    /\ \A j \in 1..(k - 1) : seq[j] # ErrorMarker

\* C11: in the sessions of RegisterJujuUserStep.run and
\* AddJujuMachineStep.run, when end-of-stream is matched and the output
\* before it holds 'ERROR', the Outcome is FAILED with the output from the
\* first 'ERROR' onward as its message; when it holds no 'ERROR' the session
\* ends without a FAILED Outcome.
C11_ErrorAtEOF ==
    (AtEOF /\ Logged(ses)) =>
        IF \E k \in 1..Len(ses.before) : ses.before[k] = ErrorMarker
        THEN /\ ses.out.kind = FAILED
             /\ \E k \in 1..Len(ses.before) :
                   /\ ErrorAt(ses.before, k)
                   /\ ses.out.msg = SubSeq(ses.before, k, Len(ses.before))
        ELSE ses.out.kind # FAILED

C11_Witness ==
    /\ AtEOF
    /\ ses.kind = "register"
    /\ ses.before = <<OtherText, ErrorMarker>>
    /\ ses.out = [kind |-> FAILED, msg |-> <<ErrorMarker>>]

\* C12 as stated: a process that reaches end-of-stream without any prompt
\* having been matched never leads to a COMPLETED Outcome.
C12_NoPromptNeverCompleted ==
    (AtEOF /\ Logged(ses) /\ ~ses.prompted) => ses.out.kind # COMPLETED

\* C12: a process that reaches end-of-stream without any prompt having been
\* matched leads to FAILED exactly when its output holds 'ERROR'; with no
\* 'ERROR' RegisterJujuUserStep.run returns COMPLETED and
\* AddJujuMachineStep.run goes on to the machine listing.
C12_NoPromptFailsOnError ==
    (AtEOF /\ Logged(ses) /\ ~ses.prompted) =>
        /\ ses.out.kind = FAILED <=> (\E k \in 1..MaxBuf : ErrorAt(ses.before, k))
        /\ (ses.kind = "register" /\ ses.out.kind # FAILED)
              => ses.out.kind = COMPLETED
        /\ (ses.kind = "add_machine" /\ ses.out.kind # FAILED)
              => ses.out \in {[kind |-> COMPLETED, msg |-> <<"0">>],
                              [kind |-> COMPLETED, msg |-> <<"-1">>],
                              [kind |-> RAISED, msg |-> <<CalledProcessError>>]}

C12_Witness ==
    /\ AtEOF
    /\ ses.kind = "add_machine"
    /\ ~ses.prompted
    /\ ses.before = <<OtherText>>
    /\ ses.out = [kind |-> COMPLETED, msg |-> <<"0">>]

TimeoutDiagnostics == {<<PexpectTimeout>>, <<"TIMED OUT to add machine">>}

\* C13: when no pattern arrives within the timeout, each of the four
\* sessions returns FAILED with a timeout diagnostic, never COMPLETED or
\* SKIPPED, and no Outcome of another cause carries that diagnostic.
C13_TimeoutFails ==
    Done =>
        /\ AtTimeout => (ses.out.kind = FAILED /\ ses.out.msg \in TimeoutDiagnostics)
        /\ ~AtTimeout => ses.out.msg \notin TimeoutDiagnostics

C13_Witness ==
    /\ AtTimeout
    /\ ses.kind = "login_run"
    /\ ses.st = 2
    /\ ses.out = [kind |-> FAILED, msg |-> <<PexpectTimeout>>]

Secrets == {"pw1", "pw2", "controller", "yes"}

\* C14: the session log holds what was read from the process and nothing
\* else: no value the step sent is in it, and a session run with another
\* password over the same process output leaves the same log.
C14_LogIsWhatWasRead ==
    Logged(ses) =>
        /\ ses.log = ses.rd
        /\ ses.log = ses.log2
        /\ \A k \in 1..Len(ses.log) : ses.log[k] \notin Secrets

C14_Witness ==
    /\ AtTimeout
    /\ ses.kind = "register"
    /\ ses.prompted
    /\ Len(ses.log) = MaxLog

RegisterPrompts == {RegisterExpectList[k] : k \in 1..4}

\* a step of RegisterJujuUserStep.run in which expect() returns a prompt
RegisterMatchStep ==
    /\ InSession
    /\ ses.kind = "register"
    /\ \E p \in 1..Len(Unmatched) : Unmatched[p] \in RegisterPrompts
    /\ Len(ses'.buffer \o ses'.pending) < Len(Unmatched)

\* the reaction of the loop body to the index it was given
RegisterReaction ==
    /\ ses'.index \in 0..3
    /\ ses'.sent = IF ses'.index = 2 THEN <<"controller">> ELSE <<"pw1">>
    /\ ses'.pc = "expect"

\* C15 as stated: each iteration consumes one pattern and reacts to it, and
\* when several patterns match the buffered output the earliest in the table
\* is the one acted on.
C15_EarliestInTable ==
    [][RegisterMatchStep =>
          /\ RegisterReaction
          /\ \E p \in 1..Len(Unmatched) :
                Unmatched[p] = RegisterExpectList[ses'.index + 1]
          /\ \A p \in 1..Len(Unmatched), t \in 1..4 :
                Unmatched[p] = RegisterExpectList[t] => ses'.index + 1 <= t]_vars

\* C15: each iteration of the session of RegisterJujuUserStep.run consumes
\* exactly one pattern of the table and reacts to it once: the password for
\* the three password prompts, the controller name for the controller
\* prompt, and only end-of-stream ends the loop; when several patterns match
\* the buffered output, the one that comes first in the output is the one
\* acted on, and it alone is consumed.
C15_EarliestInOutput ==
    [][RegisterMatchStep =>
          /\ RegisterReaction
          /\ \E p \in 1..Len(Unmatched) :
                /\ Unmatched[p] = RegisterExpectList[ses'.index + 1]
                /\ \A q \in 1..(p - 1) : Unmatched[q] \notin RegisterPrompts
                /\ ses'.buffer = SubSeq(Unmatched, p + 1, Len(Unmatched))
          /\ (Done' => ses'.via # "match")]_vars

C15_Witness ==
    /\ ses.kind = "register"
    /\ ses.pc = "expect"
    /\ ses.via = "match"
    /\ ses.index = 2
    /\ ses.sent = <<"controller">>
    /\ ses.buffer = <<RegisterExpectList[1]>>

\* C16: every session returns in the end, also when the process prints a
\* recognized prompt again after each reply.
C16_SessionReturns == <>Done

\* C17: when one of the four session methods returns, on the success, the
\* ERROR or the timeout path, the child has ended or the step has closed it.
C17_ChildNeverLeftRunning == Done => ses.child \in {"exited", "closed"}

\* ---------------------------------------------------------------------
\* BootstrapJujuStep.run, argument by argument.  An argument is the
\* sequence of its parts between '=' characters, as arg.split("=") gives
\* them: "admin-secret=s1" is <<"admin-secret", "s1">>.

MaxArgs == 2

Marker == "admin-secret"

Stars == "********"

SecretValues == {"s1", "s2"}

Stderr == <<"ERROR bootstrap failed">>

BootstrapArgs ==
    {<<"--debug">>, <<Marker, "s1">>, <<Marker, "s2">>,
     <<"--config", Marker, "s1">>, <<Marker>>}

ArgLists == UNION {[1..n -> BootstrapArgs] : n \in 0..MaxArgs}

ProxySettings == SUBSET {"HTTP_PROXY", "HTTPS_PROXY", "NO_PROXY"}

ProxyArgs(proxy) ==
    (IF "HTTP_PROXY" \in proxy
     THEN <<<<"--config">>, <<"juju-http-proxy", "url">>,
            <<"--config">>, <<"snap-http-proxy", "url">>>>
     ELSE <<>>)
    \o (IF "HTTPS_PROXY" \in proxy
        THEN <<<<"--config">>, <<"juju-https-proxy", "url">>,
               <<"--config">>, <<"snap-https-proxy", "url">>>>
        ELSE <<>>)
    \o (IF "NO_PROXY" \in proxy
        THEN <<<<"--config">>, <<"juju-no-proxy", "url">>>>
        ELSE <<>>)

\* cmd as built before the redaction loop
BootstrapCmd(args, proxy) ==
    <<<<"juju">>, <<"bootstrap">>>> \o args
        \o <<<<"cloud">>, <<"controller">>>> \o ProxyArgs(proxy)

\* "admin-secret" in arg
ContainsMarker(arg) == \E k \in 1..Len(arg) : arg[k] = Marker

\* option, _ = arg.split("=") needs exactly two parts
Unpacks(arg) == Len(arg) = 2

\* arg = "=".join((option, "********"))
Hidden(arg) == IF ContainsMarker(arg) THEN <<arg[1], Stars>> ELSE arg

\* str(e) of subprocess.CalledProcessError names the command list and the
\* exit status
StrOfError(command) ==
    <<<<"Command">>>> \o command \o <<<<"returned non-zero exit status 1">>>>

\* a text (a sequence of arguments) holds the value v
Mentions(text, v) ==
    \E k \in 1..Len(text) : \E j \in 1..Len(text[k]) : text[k][j] = v

Bootstrapping(args, proxy) ==
    [kind |-> "bootstrap", pc |-> "start", args |-> args, proxy |-> proxy,
     executed |-> <<>>, log |-> <<>>, stderr |-> <<>>,
     out |-> [kind |-> NoneV, msg |-> <<>>]]

\* the whole of run(); code: the exit status of `juju bootstrap`
BootstrapRun ==
    /\ ses.kind = "bootstrap"
    /\ ses.pc = "start"
    /\ LET command == BootstrapCmd(ses.args, ses.proxy)
           hidden_cmd == [k \in 1..Len(command) |-> Hidden(command[k])] IN
       IF \E k \in 1..Len(command) :
             ContainsMarker(command[k]) /\ ~Unpacks(command[k])
       THEN ses' = [ses EXCEPT !.pc = "returned",
                      !.out = [kind |-> RAISED, msg |-> <<<<"ValueError">>>>]]
       ELSE \E code \in {0, 1} :
              ses' = IF code = 0
                     THEN [ses EXCEPT !.pc = "returned",
                             !.executed = command,
                             !.log = hidden_cmd \o <<<<"Command finished">>>>,
                             !.out = [kind |-> COMPLETED, msg |-> <<>>]]
                     ELSE [ses EXCEPT !.pc = "returned",
                             !.executed = command,
                             !.stderr = <<Stderr>>,
                             !.log = hidden_cmd
                                       \o <<<<"Error bootstrapping Juju">>>>
                                       \o StrOfError(command) \o <<Stderr>>,
                             !.out = [kind |-> FAILED,
                                      msg |-> StrOfError(command)]]
    /\ UNCHANGED <<plan, i, phase, results, calls, skips, outs, w, cmd, stage,
                   runs, sk>>

InitBoot ==
    /\ \E args \in ArgLists, proxy \in ProxySettings :
          ses = Bootstrapping(args, proxy)
    /\ plan = <<>>
    /\ i = 1
    /\ phase = "session"
    /\ results = <<>>
    /\ calls = <<>>
    /\ skips = <<>>
    /\ outs = <<>>
    /\ w = Fresh
    /\ cmd = "bootstrap"
    /\ stage = 0
    /\ runs = 1
    /\ sk = NoSk

NextBoot == BootstrapRun

SpecBoot == InitBoot /\ [][NextBoot]_vars

BootDone == ses.kind = "bootstrap" /\ ses.pc = "returned"

\* C18: when `juju bootstrap` exits non-zero, the message of the FAILED
\* Outcome carries the captured stderr and holds no secret value.
C18_FailureMessage ==
    (BootDone /\ ses.out.kind = FAILED) =>
        /\ \E k \in 1..Len(ses.out.msg) : ses.out.msg[k] = Stderr
        /\ \A v \in SecretValues : ~Mentions(ses.out.msg, v)

\* C19: for every list of bootstrap arguments the log shows each argument
\* that holds 'admin-secret' with '********' for its value and never the
\* value itself, the command executed carries the original arguments, and
\* the redaction never keeps the command from being run.
C19_Redaction ==
    BootDone =>
        /\ ses.out.kind # RAISED
        /\ ses.executed = BootstrapCmd(ses.args, ses.proxy)
        /\ \A v \in SecretValues : ~Mentions(ses.log, v)
        /\ \A k \in 1..Len(ses.args) :
              ContainsMarker(ses.args[k]) =>
                 \E j \in 1..Len(ses.log) :
                    ses.log[j] = <<ses.args[k][1], Stars>>

\* ---------------------------------------------------------------------
\* The files the steps write: the session logs of RegisterJujuUserStep.run
\* and AddJujuMachineStep.run, and the snapshots of WriteJujuStatusStep.run
\* and WriteCharmLogStep.run.

MaxBytes == 2

\* the permissions a file can have; a file that open() or touch() creates
\* gets 0666 less the umask of the process
Modes == {"0600", "0644", "0660", "0664"}

LogWriters == {"register", "add_machine"}

SnapshotWriters == {"status", "charm_log"}

FileOf(step, exists, mode, newmode) ==
    [kind |-> "file", step |-> step, pc |-> "start", exists |-> exists,
     mode |-> mode, newmode |-> newmode, bytes |-> 0, firstmode |-> NoneV]

\* with open(log_file, "wb+") as f: creates the file or empties it
OpenSessionLog ==
    /\ ses.kind = "file"
    /\ ses.pc = "start"
    /\ ses.step \in LogWriters
    /\ ses' = [ses EXCEPT !.pc = "open",
                 !.exists = TRUE,
                 !.mode = IF ses.exists THEN ses.mode ELSE ses.newmode,
                 !.bytes = 0]
    /\ UNCHANGED <<plan, i, phase, results, calls, skips, outs, w, cmd, stage,
                   runs, sk>>

\* touch() when the file is missing, chmod(0o660), then open for writing;
\* ok: nothing before the open raised
OpenSnapshot ==
    /\ ses.kind = "file"
    /\ ses.pc = "start"
    /\ ses.step \in SnapshotWriters
    /\ \E ok \in BOOLEAN :
          ses' = IF ok
                 THEN [ses EXCEPT !.pc = "open", !.exists = TRUE,
                         !.mode = "0660", !.bytes = 0]
                 ELSE [ses EXCEPT !.pc = "returned"]
    /\ UNCHANGED <<plan, i, phase, results, calls, skips, outs, w, cmd, stage,
                   runs, sk>>

\* a byte goes into the open file
WriteByte ==
    /\ ses.kind = "file"
    /\ ses.pc = "open"
    /\ ses.bytes < MaxBytes
    /\ ses' = [ses EXCEPT !.bytes = ses.bytes + 1,
                 !.firstmode = IF ses.bytes = 0 THEN ses.mode
                               ELSE ses.firstmode]
    /\ UNCHANGED <<plan, i, phase, results, calls, skips, outs, w, cmd, stage,
                   runs, sk>>

\* the with block ends
CloseFile ==
    /\ ses.kind = "file"
    /\ ses.pc = "open"
    /\ ses' = [ses EXCEPT !.pc = "returned"]
    /\ UNCHANGED <<plan, i, phase, results, calls, skips, outs, w, cmd, stage,
                   runs, sk>>

InitFiles ==
    /\ \E step \in LogWriters \cup SnapshotWriters, newmode \in Modes :
          \/ ses = FileOf(step, FALSE, NoneV, newmode)
          \/ \E mode \in Modes : ses = FileOf(step, TRUE, mode, newmode)
    /\ plan = <<>>
    /\ i = 1
    /\ phase = "session"
    /\ results = <<>>
    /\ calls = <<>>
    /\ skips = <<>>
    /\ outs = <<>>
    /\ w = Fresh
    /\ cmd = "files"
    /\ stage = 0
    /\ runs = 1
    /\ sk = NoSk

NextFiles == OpenSessionLog \/ OpenSnapshot \/ WriteByte \/ CloseFile

SpecFiles == InitFiles /\ [][NextFiles]_vars

\* C20: every file a step writes, session log or snapshot, new or already
\* there, has permissions 0660 by the time its first byte is written.
C20_ModeBeforeFirstByte ==
    (ses.kind = "file" /\ ses.bytes > 0) => ses.firstmode = "0660"

\* ---------------------------------------------------------------------
\* commands/openstack.py: the sizing functions, and the run methods of
\* DeployControlPlaneStep and ReapplyOpenStackTerraformPlanStep followed
\* call by call.

MaxControl == 6

MaxOsds == 4

MaxStorage == 1

\* the call raised ValueError("Unknown topology ..."); no scale is negative
ValueError == -1

Min(a, b) == IF a < b THEN a ELSE b

\* variant: the number of control nodes is not looked at
compute_ha_scale_ByTopology(topology, control_nodes) ==
    IF topology = "single" THEN 1 ELSE 3

compute_ha_scale(topology, control_nodes) ==
    IF topology = "single" \/ control_nodes < 3 THEN 1 ELSE 3

compute_os_api_scale(topology, control_nodes) ==
    IF topology = "single" THEN 1
    ELSE IF topology = "multi" \/ control_nodes < 3
    THEN Min(control_nodes, 3)
    ELSE IF topology = "large" THEN Min(control_nodes + 2, 7)
    ELSE ValueError

\* variant: three ingress units for every topology other than 'single'
compute_ingress_scale_Three(topology, control_nodes) ==
    IF topology = "single" THEN 1 ELSE 3

compute_ingress_scale(topology, control_nodes) ==
    IF topology = "single" THEN 1 ELSE Min(control_nodes, 3)

\* variant: three replicas whatever the number of OSDs
compute_ceph_replica_scale_Three(osds) == 3

compute_ceph_replica_scale(osds) == Min(osds, 3)

\* DeployControlPlaneStep.get_storage_tfvars; the tfvars are a function from
\* the keys that are set
get_storage_tfvars(storage_nodes, osds) ==
    IF storage_nodes > 0
    THEN ("enable-ceph" :> TRUE)
           @@ ("ceph-osd-replication-count" :> compute_ceph_replica_scale(osds))
    ELSE ("enable-ceph" :> FALSE)

\* what has been evaluated of the tfvars when compute_os_api_scale is called
evaluated(s) ==
    get_storage_tfvars(s.storage, s.osds)
      @@ ("ha-scale" :> compute_ha_scale(s.topology, s.control))
      @@ ("os-api-scale" :> compute_os_api_scale(s.topology, s.control))

\* extra_tfvars.update({...}) with the three scales
extra_tfvars(s) ==
    get_storage_tfvars(s.storage, s.osds)
      @@ ("ha-scale" :> compute_ha_scale(s.topology, s.control))
      @@ ("os-api-scale" :> compute_os_api_scale(s.topology, s.control))
      @@ ("ingress-scale" :> compute_ingress_scale(s.topology, s.control))

TopologyValues == {"single", "multi", "large", "auto", "huge"}

NoTfvars == ("none" :> TRUE)

Deploying(step, topology, control, storage, osds) ==
    [kind |-> "deploy", step |-> step, pc |-> "start", topology |-> topology,
     control |-> control, storage |-> storage, osds |-> osds,
     tfvars |-> NoTfvars, task |-> "none", how |-> "none",
     out |-> [kind |-> NoneV, msg |-> NoneV]]

DeployReturn(s, kind, msg) ==
    [s EXCEPT !.pc = "returned", !.out = [kind |-> kind, msg |-> msg]]

\* variant: the task is cancelled on the success path only
Finally_OnSuccessOnly(task, how) ==
    IF task = "running" /\ how = "active" THEN "cancelled" ELSE task

\* finally: if not task.done(): task.cancel()
Finally(task, how) == IF task = "running" THEN "cancelled" ELSE task

\* DeployControlPlaneStep.run up to the terraform call: the sizing; ok: the
\* OSDs could be counted
ComputeTfvars ==
    /\ ses.kind = "deploy"
    /\ ses.pc = "start"
    /\ ses.step = "DeployControlPlaneStep"
    /\ \E ok \in BOOLEAN :
         ses' = IF ses.storage > 0 /\ ~ok
                THEN DeployReturn(ses, RAISED, "JujuException")
                ELSE IF compute_os_api_scale(ses.topology, ses.control)
                          = ValueError
                THEN DeployReturn([ses EXCEPT !.tfvars = evaluated(ses)],
                                  RAISED, "ValueError")
                ELSE [ses EXCEPT !.pc = "apply", !.tfvars = extra_tfvars(ses)]
    /\ UNCHANGED <<plan, i, phase, results, calls, skips, outs, w, cmd, stage,
                   runs, sk>>

\* tfhelper.update_tfvars_and_apply_tf: TerraformException gives FAILED
ApplyTerraform ==
    /\ ses.kind = "deploy"
    /\ \/ ses.pc = "apply"
       \/ ses.pc = "start" /\ ses.step = "ReapplyOpenStackTerraformPlanStep"
    /\ \E ok \in BOOLEAN :
         ses' = IF ok THEN [ses EXCEPT !.pc = "names"]
                ELSE DeployReturn(ses, FAILED, "TerraformException")
    /\ UNCHANGED <<plan, i, phase, results, calls, skips, outs, w, cmd, stage,
                   runs, sk>>

\* get_application_names, then update_status_background starts the task
StartTask ==
    /\ ses.kind = "deploy"
    /\ ses.pc = "names"
    /\ \E ok \in BOOLEAN :
         ses' = IF ok THEN [ses EXCEPT !.pc = "wait", !.task = "running"]
                ELSE DeployReturn(ses, RAISED, "JujuException")
    /\ UNCHANGED <<plan, i, phase, results, calls, skips, outs, w, cmd, stage,
                   runs, sk>>

\* the status-reporting task ends by itself
TaskFinishes ==
    /\ ses.kind = "deploy"
    /\ ses.pc = "wait"
    /\ ses.task = "running"
    /\ ses' = [ses EXCEPT !.task = "done"]
    /\ UNCHANGED <<plan, i, phase, results, calls, skips, outs, w, cmd, stage,
                   runs, sk>>

\* wait_until_active returns or raises, and the finally clause runs
WaitReturns ==
    /\ ses.kind = "deploy"
    /\ ses.pc = "wait"
    /\ \E how \in {"active", "JujuWaitException", "TimeoutException",
                   "Exception"} :
         LET s1 == [ses EXCEPT !.how = how,
                               !.task = Finally(ses.task, how)] IN
         ses' = CASE how = "active" -> DeployReturn(s1, COMPLETED, NoneV)
                  [] how = "Exception" -> DeployReturn(s1, RAISED, how)
                  [] OTHER -> DeployReturn(s1, FAILED, how)
    /\ UNCHANGED <<plan, i, phase, results, calls, skips, outs, w, cmd, stage,
                   runs, sk>>

InitDeploy ==
    /\ \/ \E topology \in TopologyValues, control \in 0..MaxControl,
             storage \in 0..MaxStorage, osds \in 0..MaxOsds :
             ses = Deploying("DeployControlPlaneStep", topology, control,
                             storage, osds)
       \/ \E storage \in 0..MaxStorage :
             ses = Deploying("ReapplyOpenStackTerraformPlanStep", "", 0,
                             storage, 0)
    /\ plan = <<>>
    /\ i = 1
    /\ phase = "session"
    /\ results = <<>>
    /\ calls = <<>>
    /\ skips = <<>>
    /\ outs = <<>>
    /\ w = Fresh
    /\ cmd = "deploy"
    /\ stage = 0
    /\ runs = 1
    /\ sk = NoSk

NextDeploy ==
    ComputeTfvars \/ ApplyTerraform \/ StartTask \/ TaskFinishes \/ WaitReturns

SpecDeploy == InitDeploy /\ [][NextDeploy]_vars

DeployDone == ses.kind = "deploy" /\ ses.pc = "returned"

\* the sizing of DeployControlPlaneStep.run has been evaluated
SizingDone == ses.kind = "deploy" /\ "ha-scale" \in DOMAIN ses.tfvars

\* C22: once the status-reporting task has been started it is done or
\* cancelled when run returns or raises, on success, on JujuWaitException
\* or TimeoutException and on any other exception of the wait.
C22_NoTaskOutlivesRun ==
    (DeployDone /\ ses.task # "none") => ses.task \in {"done", "cancelled"}

C22_Witness ==
    /\ DeployDone
    /\ ses.step = "ReapplyOpenStackTerraformPlanStep"
    /\ ses.how = "Exception"
    /\ ses.out.kind = RAISED
    /\ ses.task = "cancelled"

\* C23: compute_os_api_scale gives 1 for 'single', min(control_nodes, 3)
\* for 'multi' and for 'large' with fewer than 3 control nodes,
\* min(control_nodes + 2, 7) for 'large' otherwise, and fails with the
\* unknown-topology error for every other topology at every node count.
C23_ApiScale ==
    SizingDone =>
        LET api == ses.tfvars["os-api-scale"]
            n == ses.control IN
        CASE ses.topology = "single" -> api = 1
          [] ses.topology = "multi" -> api = (IF n < 3 THEN n ELSE 3)
          [] ses.topology = "large" ->
                api = (IF n < 3 THEN n ELSE IF n + 2 < 7 THEN n + 2 ELSE 7)
          [] OTHER -> api = ValueError /\ ses.out.kind = RAISED

\* C24: compute_ha_scale is 1 when the topology is 'single' or there are
\* fewer than 3 control nodes and 3 otherwise, for every topology value and
\* node count: 3 is never asked for with fewer than 3 control nodes.
C24_HaScale ==
    SizingDone =>
        LET ha == ses.tfvars["ha-scale"] IN
        /\ ha \in {1, 3}
        /\ ha = 3 <=> (ses.topology # "single" /\ ses.control >= 3)

C24_Witness ==
    /\ SizingDone
    /\ ses.topology = "multi"
    /\ ses.control = 2
    /\ ses.tfvars["ha-scale"] = 1

\* C26: the replication count in the tfvars is min(OSDs, 3), never above
\* the number of OSDs, and is set only with at least one storage node,
\* together with enable-ceph true; without storage nodes enable-ceph is
\* false and no replication count is set.
C26_CephReplicas ==
    SizingDone =>
        IF ses.storage > 0
        THEN /\ ses.tfvars["enable-ceph"]
             /\ LET r == ses.tfvars["ceph-osd-replication-count"] IN
                /\ r <= ses.osds
                /\ r <= 3
                /\ r = ses.osds \/ r = 3
        ELSE /\ ~ses.tfvars["enable-ceph"]
             /\ "ceph-osd-replication-count" \notin DOMAIN ses.tfvars

C26_Witness ==
    /\ SizingDone
    /\ ses.storage = 1
    /\ ses.osds = 1
    /\ ses.tfvars["ceph-osd-replication-count"] = 1

\* ---------------------------------------------------------------------
\* determine_target_topology over the node lists of the cluster database

MaxNames == 12

\* the nodes of a role, as list_nodes_by_role gives them: names lo..hi
NodeList(lo, hi) == [k \in 1..(hi - lo + 1) |-> lo + k - 1]

\* variant: a node is counted once for each role it holds
Combined_PerRole(control_nodes, compute_nodes) ==
    {<<"control", control_nodes[k]>> : k \in 1..Len(control_nodes)}
      \cup {<<"compute", compute_nodes[k]>> : k \in 1..Len(compute_nodes)}

\* set(node["name"] for node in control_nodes + compute_nodes)
Combined(control_nodes, compute_nodes) ==
    LET nodes == control_nodes \o compute_nodes IN
    {nodes[k] : k \in 1..Len(nodes)}

Surveying(control_nodes, compute_nodes, low) ==
    [kind |-> "topology", pc |-> "start", control |-> control_nodes,
     compute |-> compute_nodes, ramLow |-> low, topology |-> NoneV]

\* the call of determine_target_topology(client)
DetermineTopology ==
    /\ ses.kind = "topology"
    /\ ses.pc = "start"
    /\ ses' = [ses EXCEPT
                 !.pc = "returned",
                 !.topology = determine_target_topology(
                     [ncombined |->
                          Cardinality(Combined(ses.control, ses.compute)),
                      ramLow |-> ses.ramLow])]
    /\ UNCHANGED <<plan, i, phase, results, calls, skips, outs, w, cmd, stage,
                   runs, sk>>

InitSurvey ==
    /\ \E a \in 0..MaxNames, lo \in 1..MaxNames, hi \in 0..MaxNames,
          low \in BOOLEAN :
          /\ hi >= lo - 1
          /\ ses = Surveying(NodeList(1, a), NodeList(lo, hi), low)
    /\ plan = <<>>
    /\ i = 1
    /\ phase = "session"
    /\ results = <<>>
    /\ calls = <<>>
    /\ skips = <<>>
    /\ outs = <<>>
    /\ w = Fresh
    /\ cmd = "topology"
    /\ stage = 0
    /\ runs = 1
    /\ sk = NoSk

NextSurvey == DetermineTopology

SpecSurvey == InitSurvey /\ [][NextSurvey]_vars

\* the distinct names that hold the control or the compute role
DistinctNames ==
    {n \in 1..MaxNames :
        \/ \E k \in 1..Len(ses.control) : ses.control[k] = n
        \/ \E k \in 1..Len(ses.compute) : ses.compute[k] = n}

\* C25: with C the distinct node names holding the control or the compute
\* role, determine_target_topology gives 'single' iff |C| = 1 and the host
\* RAM is below the threshold, otherwise 'multi' iff |C| < 10, otherwise
\* 'large'.
C25_TargetTopology ==
    (ses.kind = "topology" /\ ses.pc = "returned") =>
        LET n == Cardinality(DistinctNames) IN
        /\ ses.topology = "single" <=> (n = 1 /\ ses.ramLow)
        /\ ses.topology = "multi" <=> (~(n = 1 /\ ses.ramLow) /\ n < 10)
        /\ ses.topology = "large" <=> n >= 10

C25_Witness ==
    /\ ses.kind = "topology"
    /\ ses.pc = "returned"
    /\ Len(ses.control) = 9
    /\ Len(ses.compute) = 9
    /\ ses.topology = "multi"

\* ---------------------------------------------------------------------
\* The constructors of the step classes of commands/juju.py and the process
\* environment.  A value of the environment is a sequence of text parts,
\* <<>> for a variable that is not set.

MaxBuilt == 2

JujuClasses ==
    {"AddCloudJujuStep", "AddCredentialsJujuStep", "BootstrapJujuStep",
     "ScaleJujuStep", "CreateJujuUserStep", "JujuGrantModelAccessStep",
     "RemoveJujuUserStep", "RegisterJujuUserStep", "AddJujuMachineStep",
     "RemoveJujuMachineStep", "BackupBootstrapUserStep",
     "SaveJujuUserLocallyStep", "WriteJujuStatusStep", "WriteCharmLogStep",
     "JujuLoginStep", "AddInfrastructureModelStep",
     "UpdateJujuModelConfigStep", "DownloadJujuControllerCharmStep"}

\* the classes whose __init__ ends with os.environ["JUJU_DATA"] = ...
SetsJujuData ==
    {"BootstrapJujuStep", "CreateJujuUserStep", "JujuGrantModelAccessStep",
     "RemoveJujuUserStep", "RegisterJujuUserStep", "AddJujuMachineStep",
     "RemoveJujuMachineStep"}

\* f"{home}/.local/share/juju", home being os.environ.get("SNAP_REAL_HOME")
JujuDataOf(environ) ==
    <<IF environ.SNAP_REAL_HOME = <<>> THEN "None"
      ELSE environ.SNAP_REAL_HOME[1], "/.local/share/juju">>

\* os.environ after cls.__init__
init(cls, environ) ==
    IF cls \in SetsJujuData
    THEN [environ EXCEPT !.JUJU_DATA = JujuDataOf(environ)]
    ELSE environ

Environments ==
    [SNAP_REAL_HOME : {<<>>, <<"/home/ubuntu">>},
     JUJU_DATA : {<<>>, <<"/var/lib/juju">>,
                  <<"/home/ubuntu", "/.local/share/juju">>}]

\* a step is constructed while a plan is being built
Construct ==
    /\ ses.kind = "init"
    /\ ses.n < MaxBuilt
    /\ \E cls \in JujuClasses :
         ses' = [ses EXCEPT !.n = ses.n + 1, !.cls = cls,
                            !.before = ses.environ,
                            !.environ = init(cls, ses.environ)]
    /\ UNCHANGED <<plan, i, phase, results, calls, skips, outs, w, cmd, stage,
                   runs, sk>>

InitConstruct ==
    /\ \E environ \in Environments :
          ses = [kind |-> "init", n |-> 0, cls |-> "none",
                 before |-> environ, environ |-> environ]
    /\ plan = <<>>
    /\ i = 1
    /\ phase = "session"
    /\ results = <<>>
    /\ calls = <<>>
    /\ skips = <<>>
    /\ outs = <<>>
    /\ w = Fresh
    /\ cmd = "init"
    /\ stage = 0
    /\ runs = 1
    /\ sk = NoSk

NextConstruct == Construct

SpecConstruct == InitConstruct /\ [][NextConstruct]_vars

\* C21: for every step class of commands/juju.py the process environment
\* is the same after __init__ as before it.
C21_ConstructionLeavesEnviron ==
    (ses.kind = "init" /\ ses.n > 0) => ses.environ = ses.before

\* ---------------------------------------------------------------------
\* SpecLife: one step of user creation, of removal or of inspection, run by
\* the plan protocol again and again over the same collaborators

LifeClasses ==
    {"CreateJujuUserStep", "RemoveJujuUserStep", "RemoveJujuMachineStep",
     "WriteJujuStatusStep", "WriteCharmLogStep"}

LifeWorlds(cls) ==
    CASE cls = "CreateJujuUserStep" -> {Bootstrapped}
      [] cls = "RemoveJujuUserStep" ->
            {Bootstrapped, UserWithoutGrants, UserCreated, Registered}
      [] cls = "RemoveJujuMachineStep" ->
            {[Registered EXCEPT !.machine = m, !.nodeInDb = n] :
                m \in BOOLEAN, n \in BOOLEAN}
      [] OTHER -> {UserCreated, Registered}

InitLife ==
    \E cls \in LifeClasses : \E ww \in LifeWorlds(cls) :
        /\ Enter(<<S(cls)>>)
        /\ w = ww
        /\ cmd = "life"
        /\ stage = 0
        /\ runs = 1
        /\ sk = NoSk
        /\ ses = NoSes

\* the command is given again: a fresh step of the same class
Again ==
    /\ Stopped
    /\ runs < MaxRuns
    /\ EnterNext(<<S(plan[1].cls)>>)
    /\ runs' = runs + 1
    /\ UNCHANGED <<w, cmd, ses, stage>>

NextLife == CallIsSkip \/ CallRun \/ Again

SpecLife == InitLife /\ [][NextLife]_vars

\* is_skip of the step has been called in this lifecycle
Checked(cls) == cmd = "life" /\ plan[1].cls = cls /\ sk.n = 1

\* the target of the step was absent when is_skip looked for it
TargetAbsent ==
    \/ Checked("RemoveJujuUserStep") /\ sk.c.f = 0 /\ ~sk.w0.user
    \/ Checked("RemoveJujuMachineStep") /\ sk.c.f = 0
          /\ (~sk.w0.machine \/ ~sk.w0.nodeInDb)
    \/ Checked("WriteJujuStatusStep") /\ sk.c.f = 1
    \/ Checked("WriteCharmLogStep") /\ sk.c.f = 1

\* C27: in removal and inspection steps a target that is already absent
\* gives SKIPPED, not FAILED, and run is not called: the user not listed,
\* the machine not among the machines of the controller model or the node
\* not in the cluster database, the model not found.
C27_AbsentTargetSkipped ==
    TargetAbsent =>
        /\ sk.k1 = SKIPPED
        /\ \A k \in 1..Len(calls) : calls[k][2] # "run"

\* C29: over any sequence of lifecycles of CreateJujuUserStep for one user,
\* whenever the latest Outcome is COMPLETED or SKIPPED the user exists and
\* holds both grants.
C29_ResumeGrantsUser ==
    (cmd = "life" /\ plan[1].cls = "CreateJujuUserStep" /\ Len(outs) > 0
       /\ outs[Len(outs)].kind \in {COMPLETED, SKIPPED})
      => (w.user /\ w.su /\ w.adm)

\* run of CreateJujuUserStep has been called in this lifecycle
CreateRan ==
    /\ Checked("CreateJujuUserStep")
    /\ Len(calls) > 0
    /\ calls[Len(calls)][2] = "run"

\* C30: when add-user printed no usable registration token
\* CreateJujuUserStep.run returns FAILED 'Not able to parse registration
\* token' and grants nothing; when all three commands succeed it returns
\* COMPLETED with the parsed token as its message.
C30_TokenParsing ==
    CreateRan =>
        /\ (~sk.w0.user /\ w.user /\ w.regtoken = NoneV) =>
              /\ outs[Len(outs)] =
                    [kind |-> FAILED,
                     msg |-> "Not able to parse registration token"]
              /\ ~w.su /\ ~w.adm
        /\ (~sk.w0.adm /\ w.adm) =>
              outs[Len(outs)] = [kind |-> COMPLETED, msg |-> w.regtoken]

-----------------------------------------------------------------------------
(* C31: bootstrap run again *)

\* run_plan is about to call prompt or run of BootstrapJujuStep: is_skip
\* returned COMPLETED and `juju bootstrap` is the next command issued
BootstrapIssued ==
    /\ cmd = "bootstrap"
    /\ stage = 1
    /\ phase \in {"prompt", "run"}
    /\ plan[i].cls = "BootstrapJujuStep"

\* C31: over the runs of `bootstrap`, `juju bootstrap` is issued only while no
\* controller of the given name exists; in particular never again after a run
\* of BootstrapJujuStep that returned COMPLETED
C31_BootstrapOnlyWithoutController == BootstrapIssued => ~w.controller

-----------------------------------------------------------------------------
(* SpecBootstrap: one invocation of `bootstrap`, its six plans in order, on *)
(* a control node under microk8s                                            *)

LastPlan == 5

\* plan, plan1 .. plan5 as the command assembles them
BootstrapPlans(st, res, ww) ==
    CASE st = 0 -> bootstrap_plan(ww)
      [] st = 1 -> bootstrap_plan1
      [] st = 2 -> bootstrap_plan2
      [] st = 3 -> bootstrap_plan3(get_step_message(res, "CreateJujuUserStep"))
      [] st = 4 -> bootstrap_plan4("microk8s", FALSE, "auto", "auto")
      [] OTHER -> bootstrap_plan5(FALSE)

InitBootstrap ==
    /\ cmd = "bootstrap"
    /\ w = Fresh
    /\ Enter(BootstrapPlans(0, <<>>, Fresh))
    /\ stage = 0
    /\ runs = 1
    /\ sk = NoSk
    /\ ses = NoSes

\* run_plan came back to the command, which assembles and runs its next plan
NextBootstrapPlan ==
    /\ Succeeded
    /\ stage < LastPlan
    /\ EnterNext(BootstrapPlans(stage + 1, results, w))
    /\ stage' = stage + 1
    /\ UNCHANGED <<w, cmd, ses, runs>>

NextBootstrap == CallIsSkip \/ CallPrompt \/ CallRun \/ NextBootstrapPlan

SpecBootstrap == InitBootstrap /\ [][NextBootstrap]_vars

\* every step of plan p is over and none of them FAILED or raised
AllEnded(os, p) ==
    /\ Len(os) = Len(p)
    /\ \A k \in 1..Len(os) : os[k].kind \in {COMPLETED, SKIPPED}

\* the calls made on SetBootstrapped so far
BootstrappedCalls(p, cs) ==
    {j \in 1..Len(cs) : p[cs[j][1]].cls = "SetBootstrapped"}

\* SetBootstrapped.run returned COMPLETED
MarkedBootstrapped ==
    /\ stage = LastPlan
    /\ Len(outs) = Len(plan)
    /\ Called(Len(plan), "run")
    /\ outs[Len(plan)].kind = COMPLETED

-----------------------------------------------------------------------------
(* C33: the compatibility check of DeployControlPlaneStep.is_skip *)

\* is_skip of the DeployControlPlaneStep of this lifecycle has returned;
\* plan[1] holds self.topology and self.database as it resolved them
SkipChecked ==
    /\ cmd = "deploy"
    /\ sk.n = 1
    /\ sk.inst.cls = "DeployControlPlaneStep"

LargeOnSingle == plan[1].database = "single" /\ plan[1].topology = "large"

\* C33: is_skip returns FAILED whenever the resolved database is 'single', the
\* resolved topology 'large' and force is false; with force true it returns
\* COMPLETED on them, except that a resolved database other than the persisted
\* one returns FAILED whatever force is
C33_LargeOnSingleNeedsForce ==
    SkipChecked =>
        /\ (LargeOnSingle /\ ~plan[1].force) => sk.k1 = FAILED
        /\ (LargeOnSingle /\ plan[1].force
              /\ ~(sk.w0.topo.set /\ sk.w0.topo.database # "single")) =>
               sk.k1 = COMPLETED
        /\ (sk.w0.topo.set /\ sk.w0.topo.database # plan[1].database) =>
               (sk.k1 = FAILED /\ outs = <<Result(FAILED, DatabaseChangeMsg)>>)

\* topology and database both 'auto', database 'single' persisted, and the
\* deployment has grown to the size of 'large': FAILED without force
C33_Witness ==
    /\ SkipChecked
    /\ sk.inst.topology = "auto"
    /\ sk.inst.database = "auto"
    /\ ~sk.inst.force
    /\ sk.w0.topo.set
    /\ sk.w0.topo.database = "single"
    /\ sk.w0.ncombined >= LargeThreshold
    /\ LargeOnSingle
    /\ outs = <<Result(FAILED, NotCompatibleMsg)>>

-----------------------------------------------------------------------------
(* C34: the Topology config after a failed DeployControlPlaneStep.run *)

\* run of the DeployControlPlaneStep of this lifecycle returned FAILED
RunFailed ==
    /\ cmd = "deploy"
    /\ Called(1, "run")
    /\ outs = <<Result(FAILED, outs[1].msg)>>

\* C34: DeployControlPlaneStep.run writes topology and database to the
\* Topology config before terraform is invoked and nothing takes them back:
\* after a run that returned FAILED the persisted values are those of that
\* attempt, and every later run is made with the persisted database
C34_NoRollback ==
    /\ RunFailed =>
           w.topo = [set |-> TRUE, topology |-> plan[1].topology,
                     database |-> plan[1].database]
    /\ (cmd = "deploy" /\ Called(1, "run") /\ sk.w0.topo.set) =>
           plan[1].database = sk.w0.topo.database

\* the first attempt of a deployment failed and left its values behind
C34_Witness ==
    /\ RunFailed
    /\ ~sk.w0.topo.set
    /\ w.topo.set
    /\ w.topo.database = plan[1].database

-----------------------------------------------------------------------------
(* C35: the values the database of the Topology config takes *)

\* C35: the database of the persisted Topology config is 'single' or 'multi',
\* never 'auto' or 'large', and the 'many-mysql' handed to terraform is true
\* exactly when that database is 'multi'
C35_PersistedDatabase ==
    /\ w.topo.set => w.topo.database \in {"single", "multi"}
    /\ w.tf.applied =>
           /\ w.topo.set
           /\ w.tf.many_mysql <=> (w.topo.database = "multi")

\* database 'auto' on a deployment of the size of 'large' with nothing
\* persisted before: 'multi' was written and handed on
C35_Witness ==
    /\ cmd = "deploy"
    /\ Called(1, "run")
    /\ sk.inst.database = "auto"
    /\ ~sk.w0.topo.set
    /\ determine_target_topology(sk.w0) = "large"
    /\ w.topo.database = "multi"
    /\ w.tf.applied
    /\ w.tf.many_mysql

-----------------------------------------------------------------------------
(* C36: the three scales against each other and against the node count *)

MaxScale == 7

\* the scales of the tfvars for one control node less
ScalesBelow ==
    [ha |-> compute_ha_scale(ses.topology, ses.control - 1),
     ingress |-> compute_ingress_scale(ses.topology, ses.control - 1),
     api |-> compute_os_api_scale(ses.topology, ses.control - 1)]

\* C36: for topology 'single', 'multi' or 'large' and at least one control
\* node, 1 <= ha-scale <= ingress-scale <= os-api-scale <= 7, ha-scale and
\* ingress-scale do not exceed the number of control nodes, and no scale is
\* smaller than it is with one control node less
C36_ScalesOrdered ==
    (SizingDone /\ ses.topology \in {"single", "multi", "large"}
                /\ ses.control >= 1) =>
        LET ha == ses.tfvars["ha-scale"]
            ingress == ses.tfvars["ingress-scale"]
            api == ses.tfvars["os-api-scale"] IN
        /\ 1 <= ha
        /\ ha <= ingress
        /\ ingress <= api
        /\ api <= MaxScale
        /\ ha <= ses.control
        /\ ingress <= ses.control
        /\ ses.control >= 2 =>
               /\ ScalesBelow.ha <= ha
               /\ ScalesBelow.ingress <= ingress
               /\ ScalesBelow.api <= api

\* 'large' with five control nodes: the three scales differ and the API
\* scale is at its cap
C36_Witness ==
    /\ SizingDone
    /\ ses.topology = "large"
    /\ ses.control = 5
    /\ ses.tfvars["ha-scale"] = 3
    /\ ses.tfvars["ingress-scale"] = 3
    /\ ses.tfvars["os-api-scale"] = MaxScale

-----------------------------------------------------------------------------
(* SpecPatch: lifecycles of PatchLoadBalancerServicesStep over the services *)
(* of the openstack model                                                   *)

MaxLives == 2

SERVICES == <<"traefik", "traefik-public", "rabbitmq", "ovn-relay">>

ServiceNames == {SERVICES[k] : k \in 1..Len(SERVICES)}

\* lb_annotation is not among the annotations of the service
Absent == "absent"

\* service.status.loadBalancer.ingress[0].ip
LoadBalancerIp ==
    ("traefik" :> "10.0.0.1") @@ ("traefik-public" :> "10.0.0.2")
      @@ ("rabbitmq" :> "10.0.0.3") @@ ("ovn-relay" :> "10.0.0.4")

\* the values lb_annotation can be found with on a service
AnnotationValues(name) == {Absent, LoadBalancerIp[name], "192.0.2.9"}

Lacking(ann) == {name \in ServiceNames : ann[name] = Absent}

\* PatchLoadBalancerServicesStep.is_skip: read_config of the kubeconfig,
\* KubeClient(kubeconfig, ...), then the annotations of the services in turn
PatchLoadBalancerServicesStep_is_skip(kubeconfig, ann) ==
    IF kubeconfig = "missing" THEN Result(FAILED, "K8S kubeconfig not found")
    ELSE IF kubeconfig = "invalid" THEN Result(FAILED, "ConfigError")
    ELSE IF \E k \in 1..Len(SERVICES) : ann[SERVICES[k]] = Absent
    THEN Result(COMPLETED, NoneV)
    ELSE Result(SKIPPED, NoneV)

\* variant: every service is patched with its load balancer IP
run_PatchesAll(ann) ==
    [ann |-> [name \in ServiceNames |-> LoadBalancerIp[name]],
     patched |-> ServiceNames]

\* PatchLoadBalancerServicesStep.run: kube.patch of each service without the
\* annotation, which is set to the IP of its load balancer
PatchLoadBalancerServicesStep_run(ann) ==
    [ann |-> [name \in ServiceNames |->
                 IF ann[name] = Absent THEN LoadBalancerIp[name]
                 ELSE ann[name]],
     patched |-> Lacking(ann)]

\* a step instance just constructed; ann0 holds the annotations it meets
Patching(kubeconfig, ann, life, prev) ==
    [kind |-> "patch", pc |-> "created", kubeconfig |-> kubeconfig,
     ann |-> ann, ann0 |-> ann, skip |-> NoneV, out |-> NoneV,
     patched |-> {}, life |-> life, prev |-> prev]

PatchIsSkip ==
    /\ ses.kind = "patch"
    /\ ses.pc = "created"
    /\ LET r == PatchLoadBalancerServicesStep_is_skip(ses.kubeconfig, ses.ann)
       IN ses' = [ses EXCEPT
                    !.skip = r.kind,
                    !.pc = IF r.kind = COMPLETED THEN "run" ELSE "returned"]
    /\ UNCHANGED <<plan, i, phase, results, calls, skips, outs, w, cmd, stage,
                   runs, sk>>

PatchRun ==
    /\ ses.kind = "patch"
    /\ ses.pc = "run"
    /\ LET r == PatchLoadBalancerServicesStep_run(ses.ann) IN
         ses' = [ses EXCEPT !.ann = r.ann, !.patched = r.patched,
                            !.out = COMPLETED, !.pc = "returned"]
    /\ UNCHANGED <<plan, i, phase, results, calls, skips, outs, w, cmd, stage,
                   runs, sk>>

\* the plan is over; the next command builds the step anew straight away
PatchAgain ==
    /\ ses.kind = "patch"
    /\ ses.pc = "returned"
    /\ ses.life < MaxLives
    /\ ses' = Patching(ses.kubeconfig, ses.ann, ses.life + 1, ses.out)
    /\ UNCHANGED <<plan, i, phase, results, calls, skips, outs, w, cmd, stage,
                   runs, sk>>

\* the services exist once the control plane is deployed, which is after the
\* kubeconfig was stored: without a usable kubeconfig nothing was patched
InitPatch ==
    /\ \E kubeconfig \in {"missing", "invalid", "valid"},
          ann \in [ServiceNames -> {Absent, "10.0.0.1", "10.0.0.2", "10.0.0.3",
                                    "10.0.0.4", "192.0.2.9"}] :
          /\ \A name \in ServiceNames : ann[name] \in AnnotationValues(name)
          /\ kubeconfig # "valid" => Lacking(ann) = ServiceNames
          /\ ses = Patching(kubeconfig, ann, 1, NoneV)
    /\ plan = <<>>
    /\ i = 1
    /\ phase = "session"
    /\ results = <<>>
    /\ calls = <<>>
    /\ skips = <<>>
    /\ outs = <<>>
    /\ w = Fresh
    /\ cmd = "patch"
    /\ stage = 0
    /\ runs = 1
    /\ sk = NoSk

NextPatch == PatchIsSkip \/ PatchRun \/ PatchAgain

SpecPatch == InitPatch /\ [][NextPatch]_vars

-----------------------------------------------------------------------------
(* C38: the local account over the runs of bootstrap and join *)

\* the RegisterJujuUserStep instances that have loaded the local account
Registering(p) ==
    {k \in 1..Len(p) : p[k].cls = "RegisterJujuUserStep" /\ p[k].acct # NoneV}

\* C38: SaveJujuUserLocallyStep writes the local account only when there is
\* none: once it is saved no later step of a bootstrap or join run or re-run
\* changes it, and the account RegisterJujuUserStep holds, whose password it
\* sends, is the saved one
C38_AccountSavedOnce ==
    [][/\ w.account # NoneV => w'.account = w.account
       /\ \A k \in Registering(plan') : plan'[k].acct = w'.account]_vars

\* on a run after a failure SaveJujuUserLocallyStep was skipped and
\* RegisterJujuUserStep ran with the account the first run saved
C38_Witness ==
    /\ cmd \in {"bootstrap", "join"}
    /\ runs > 1
    /\ \E k \in Registering(plan) :
         /\ plan[k - 1].cls = "SaveJujuUserLocallyStep"
         /\ outs[k - 1].kind = SKIPPED
         /\ Called(k, "run")
         /\ plan[k].acct = w.account

-----------------------------------------------------------------------------
(* SpecLdap: plugins/ldap/plugin.py, run of DisableLDAPDomainStep and of    *)
(* UpdateLDAPDomainStep over the tfvars config of the plugin                *)

Domains == {"d1", "d2", "d3"}

\* the config item of the plugin's tfvars: stored or not, with or without
\* the key 'ldap-apps', whose value maps domain names to charm configs
Tfvars(stored, has, apps) == [stored |-> stored, has |-> has, apps |-> apps]

\* read_config raised ConfigItemNotFoundException: tfvars = {}
EmptyTfvars == Tfvars(FALSE, FALSE, {})

StoredTfvars ==
    {EmptyTfvars, Tfvars(TRUE, FALSE, {})}
      \cup {Tfvars(TRUE, TRUE, apps) : apps \in SUBSET Domains}

\* what a run did: its Result, the config item after it, and the calls of
\* write_tfvars, update_config and tfhelper.apply it made
Ran(out, cfg, wrote, applied) ==
    [out |-> out, cfg |-> cfg, written |-> wrote, updated |-> wrote,
     applied |-> applied]

\* write_tfvars, update_config, apply and the wait: 1 = TerraformException,
\* 2 = JujuWaitException or TimeoutException
ApplyTfvars(tfvars, c) ==
    LET cfg == [tfvars EXCEPT !.stored = TRUE] IN
    IF c = 1 THEN Ran(Result(FAILED, "TerraformException"), cfg, TRUE, TRUE)
    ELSE IF c = 2 THEN Ran(Result(FAILED, "JujuWaitException"), cfg, TRUE, TRUE)
    ELSE Ran(Result(COMPLETED, NoneV), cfg, TRUE, TRUE)

\* DisableLDAPDomainStep.run: tfvars.get("ldap-apps") and domain_name in it
DisableLDAPDomainStep_run(domain_name, cfg, c) ==
    IF cfg.has /\ cfg.apps # {} /\ domain_name \in cfg.apps
    THEN ApplyTfvars([cfg EXCEPT !.apps = @ \ {domain_name}], c)
    ELSE Ran(Result(FAILED, "Domain not found"), cfg, FALSE, FALSE)

\* UpdateLDAPDomainStep.run: tfvars["ldap-apps"].get(domain-name); the
\* subscript raises KeyError when the key 'ldap-apps' is not there
UpdateLDAPDomainStep_run(domain_name, cfg, c) ==
    IF ~cfg.has THEN Ran(Result(RAISED, "KeyError"), cfg, FALSE, FALSE)
    ELSE IF domain_name \in cfg.apps THEN ApplyTfvars(cfg, c)
    ELSE Ran(Result(FAILED, "Domain not found"), cfg, FALSE, FALSE)

LdapStep(step, domain_name, cfg) ==
    [kind |-> "ldap", step |-> step, domain |-> domain_name, pc |-> "start",
     cfg0 |-> cfg, did |-> Ran(Result(NoneV, NoneV), cfg, FALSE, FALSE)]

LdapRun ==
    /\ ses.kind = "ldap"
    /\ ses.pc = "start"
    /\ \E c \in 0..2 :
         ses' = [ses EXCEPT
                   !.pc = "returned",
                   !.did = IF ses.step = "DisableLDAPDomainStep"
                           THEN DisableLDAPDomainStep_run(ses.domain,
                                                          ses.cfg0, c)
                           ELSE UpdateLDAPDomainStep_run(ses.domain,
                                                         ses.cfg0, c)]
    /\ UNCHANGED <<plan, i, phase, results, calls, skips, outs, w, cmd, stage,
                   runs, sk>>

InitLdap ==
    /\ \E step \in {"DisableLDAPDomainStep", "UpdateLDAPDomainStep"},
          domain_name \in Domains, cfg \in StoredTfvars :
          ses = LdapStep(step, domain_name, cfg)
    /\ plan = <<>>
    /\ i = 1
    /\ phase = "session"
    /\ results = <<>>
    /\ calls = <<>>
    /\ skips = <<>>
    /\ outs = <<>>
    /\ w = Fresh
    /\ cmd = "ldap"
    /\ stage = 0
    /\ runs = 1
    /\ sk = NoSk

NextLdap == LdapRun

SpecLdap == InitLdap /\ [][NextLdap]_vars

\* run returned or raised for a domain that is not a key of the persisted
\* 'ldap-apps'
UnknownDomainRan ==
    /\ ses.kind = "ldap"
    /\ ses.pc = "returned"
    /\ ses.domain \notin ses.cfg0.apps

\* C39: for a domain that is not a key of the persisted 'ldap-apps', also
\* when no tfvars config was ever stored, run of DisableLDAPDomainStep and of
\* UpdateLDAPDomainStep returns FAILED 'Domain not found', writes no tfvars,
\* does not update the cluster config, does not call terraform apply, and the
\* persisted domains are as before
C39_UnknownDomainFails ==
    UnknownDomainRan =>
        /\ ses.did.out = Result(FAILED, "Domain not found")
        /\ ~ses.did.written
        /\ ~ses.did.updated
        /\ ~ses.did.applied
        /\ ses.did.cfg = ses.cfg0

=============================================================================
